---- MODULE Spec2Model ----
(***************************************************************************)
(* myFinPal: the shared business-logic core (src/src/core) and the REST    *)
(* handlers that drive it (src/src/api/server.ts), as a state machine over *)
(* the single persisted finance document.                                  *)
(*                                                                         *)
(* Conventions                                                             *)
(*   - a calendar date string "YYYY-MM-DD" is the triple <<y, m, d>>;      *)
(*     string comparison of two such strings is the lexicographic order    *)
(*     of the triples (DateLE);                                            *)
(*   - an instant (Date.now(), an ISO timestamp) is a number of hours      *)
(*     since 1970-01-01T00:00Z;                                            *)
(*   - a currency code is the sequence of its characters;                  *)
(*   - an absent optional field (undefined) is the empty sequence None,    *)
(*     or the string Undefined where the field is a string;                *)
(*   - money amounts are integers.                                         *)
(***************************************************************************)
EXTENDS Integers, Sequences, FiniteSets, TLC

VARIABLES
    file,       \* data/finance-data.json: [status, content], see Stored
    now,        \* the wall clock, in hours since the epoch
    tz,         \* the process's time zone (the TZ name it runs under)
    nextId,     \* the next value uuidv4() hands out
    pending,    \* updateExchangeRatesIfStale calls suspended at `await fetch`
    ret         \* the last call: its name, what it returned, how often it wrote the file

vars == <<file, now, tz, nextId, pending, ret>>

\* ------------------------------------------------------------------ bounds
MaxGoals == 1            \* goals in the document
MaxContributions == 2    \* ledger entries over all goals
MaxRecurring == 1        \* recurring entries in the document
MaxTransactions == 4     \* ledger length up to which a processing pass is explored
MaxPosted == 1           \* ledger length up to which POST /transactions is explored
MaxPending == 1          \* rate refreshes suspended on the provider at once
MaxDays == 2             \* days the clock runs past StartHour, in day steps
MaxHalfDays == 3         \* half days the clock runs past StartHour, in 12 h steps
MaxId == 6               \* ids uuidv4() hands out
MaxSpan == 460           \* days after FirstHour on which a server may start
MaxEntries == 2          \* ledger length up to which entries are posted next to budgets
MaxExported == 2         \* length of the ledgers an export is taken of

\* --------------------------------------------------------------- calendar
Undefined == "undefined"
None == <<>>

\* Days since 1970-01-01 of the proleptic Gregorian date y-m-d (d may lie
\* outside the month: the day count simply runs on, as MakeDay does).
DaysFromCivil(y, m, d) ==
    LET yy  == IF m <= 2 THEN y - 1 ELSE y
        era == yy \div 400
        yoe == yy - era * 400
        mp  == (m + 9) % 12
        doy == (153 * mp + 2) \div 5 + d - 1
        doe == yoe * 365 + yoe \div 4 - yoe \div 100 + doy
    IN  era * 146097 + doe - 719468

\* The calendar date of day number z, step by step: month and day from the
\* day of the year (counted from 1 March), the year from the year of the era.
CivilOfMonth(era, yoe, doy, mp) ==
    <<yoe + era * 400 + (IF mp < 10 THEN 0 ELSE 1),
      IF mp < 10 THEN mp + 3 ELSE mp - 9,
      doy - (153 * mp + 2) \div 5 + 1>>

CivilOfYearDay(era, yoe, doy) == CivilOfMonth(era, yoe, doy, (5 * doy + 2) \div 153)

CivilOfYear(era, doe, yoe) ==
    CivilOfYearDay(era, yoe, doe - (365 * yoe + yoe \div 4 - yoe \div 100))

CivilOfEra(era, doe) ==
    CivilOfYear(era, doe,
                (doe - doe \div 1460 + doe \div 36524 - doe \div 146096) \div 365)

CivilOfShifted(zz) == CivilOfEra(zz \div 146097, zz % 146097)

CivilFromDays(z) == CivilOfShifted(z + 719468)

\* new Date("YYYY-MM-DD"): the instant of UTC midnight of that date, in hours.
ParseDate(s) == 24 * DaysFromCivil(s[1], s[2], s[3])

\* date.toISOString().split('T')[0]: the UTC calendar date of an instant.
ISODate(t) == CivilFromDays(t \div 24)

\* s1 <= s2 on "YYYY-MM-DD" strings.
DateLE(a, b) ==
    \/ a[1] < b[1]
    \/ a[1] = b[1] /\ a[2] < b[2]
    \/ a[1] = b[1] /\ a[2] = b[2] /\ a[3] <= b[3]

DateLT(a, b) == DateLE(a, b) /\ a # b

\* The zone's offset from UTC outside summer time, in hours.
StandardOffset(zone) ==
    CASE zone = "America/Bogota" -> -5
      [] zone = "Europe/Berlin"  -> 1
      [] OTHER                   -> 0

\* Europe/Berlin keeps summer time; America/Bogota and UTC have one offset.
ObservesDST(zone) == zone = "Europe/Berlin"

\* Day number of the last Sunday of a month of 31 days (1970-01-01 was a
\* Thursday).
LastSunday(y, m) == DaysFromCivil(y, m, 31) - ((DaysFromCivil(y, m, 31) + 4) % 7)

\* Summer time runs from 01:00 UTC on the last Sunday of March to 01:00 UTC on
\* the last Sunday of October of the year y of the instant t.
SummerTime(t, y) == 24 * LastSunday(y, 3) + 1 <= t /\ t < 24 * LastSunday(y, 10) + 1

\* LocalTZA(t, true): the offset in force at the UTC instant t.
OffsetAt(t) ==
    StandardOffset(tz)
      + (IF ObservesDST(tz) /\ SummerTime(t, CivilFromDays(t \div 24)[1]) THEN 1 ELSE 0)

\* UTC(l): the instant of the local time l. A local time that exists only as
\* summer time, or as both, is read as summer time; a local time skipped by
\* the clocks going forward is read with the offset before the change.
UTCOfLocal(l) ==
    IF OffsetAt(l - StandardOffset(tz) - 1) = StandardOffset(tz) + 1
    THEN l - StandardOffset(tz) - 1
    ELSE l - StandardOffset(tz)

\* The local broken-down time of an instant: <<y, m, d, hour>>.
LocalOf(c, h) == <<c[1], c[2], c[3], h>>
LocalAt(l) == LocalOf(CivilFromDays(l \div 24), l % 24)
LocalFields(t) == LocalAt(t + OffsetAt(t))

\* MakeDate(MakeDay(y, m, d), hour) read as local time, back to an instant.
\* m is 1-based here and may be 13 (setMonth(12) rolls into the next year).
FromLocalFields(y, m, d, h) ==
    LET yn == y + (m - 1) \div 12
        mn == ((m - 1) % 12) + 1
    IN  UTCOfLocal(24 * (DaysFromCivil(yn, mn, 1) + d - 1) + h)

Frequencies == {"daily", "weekly", "monthly", "yearly"}

\* ---------------------------------------------------------------- strings
LowerLetters == <<"a", "b", "c", "d", "e", "f", "g", "h", "i", "j", "k", "l", "m",
                  "n", "o", "p", "q", "r", "s", "t", "u", "v", "w", "x", "y", "z">>
UpperLetters == <<"A", "B", "C", "D", "E", "F", "G", "H", "I", "J", "K", "L", "M",
                  "N", "O", "P", "Q", "R", "S", "T", "U", "V", "W", "X", "Y", "Z">>

UpperChar(ch) ==
    IF \E i \in DOMAIN LowerLetters : LowerLetters[i] = ch
    THEN UpperLetters[CHOOSE i \in DOMAIN LowerLetters : LowerLetters[i] = ch]
    ELSE ch

\* String.prototype.toUpperCase on a sequence of characters.
ToUpperCase(s) == [i \in DOMAIN s |-> UpperChar(s[i])]

LowerChar(ch) ==
    IF \E i \in DOMAIN UpperLetters : UpperLetters[i] = ch
    THEN LowerLetters[CHOOSE i \in DOMAIN UpperLetters : UpperLetters[i] = ch]
    ELSE ch

\* String.prototype.toLowerCase on a sequence of characters.
ToLowerCase(s) == [i \in DOMAIN s |-> LowerChar(s[i])]

\* ------------------------------------------------------------------ types
USD == <<"U", "S", "D">>
EUR == <<"E", "U", "R">>
GBP == <<"G", "B", "P">>
JPY == <<"J", "P", "Y">>
CAD == <<"C", "A", "D">>
AUD == <<"A", "U", "D">>
CHF == <<"C", "H", "F">>
CNY == <<"C", "N", "Y">>
INR == <<"I", "N", "R">>
MXN == <<"M", "X", "N">>
BRL == <<"B", "R", "L">>
KRW == <<"K", "R", "W">>

SUPPORTED_CURRENCIES == <<USD, EUR, GBP, JPY, CAD, AUD, CHF, CNY, INR, MXN, BRL, KRW>>

\* Array.prototype.includes
Includes(arr, x) == \E i \in DOMAIN arr : arr[i] = x

\* The fallback table, each rate in hundredths (0.92 is 92).
DEFAULT_EXCHANGE_RATES ==
    (USD :> 100) @@ (EUR :> 92) @@ (GBP :> 79) @@ (JPY :> 14950) @@
    (CAD :> 136) @@ (AUD :> 153) @@ (CHF :> 88) @@ (CNY :> 724) @@
    (INR :> 8312) @@ (MXN :> 1715) @@ (BRL :> 497) @@ (KRW :> 132050)

DEFAULT_CATEGORIES ==
    <<"Food & Dining", "Transportation", "Shopping", "Entertainment",
      "Bills & Utilities", "Healthcare", "Education", "Travel", "Groceries",
      "Subscriptions", "Income", "Investments", "Gifts", "Personal Care",
      "Home", "Other">>

createEmptyFinanceData ==
    [ transactions          |-> <<>>,
      budgets               |-> <<>>,
      accounts              |-> << [id |-> "default", name |-> "Main Account",
                                    type |-> "checking", balance |-> 0,
                                    currency |-> USD] >>,
      categories            |-> DEFAULT_CATEGORIES,
      lastUpdated           |-> now,
      recurringTransactions |-> <<>>,
      savingsGoals          |-> <<>>,
      defaultCurrency       |-> USD,
      exchangeRates         |-> None ]

\* ---------------------------------------------------------------- storage
\* The file holds a readable document, does not exist, or does not parse.
Stored(data) == [status |-> "ok", content |-> <<data>>]
Absent == [status |-> "absent", content |-> <<>>]
Corrupt == [status |-> "corrupt", content |-> <<>>]

\* What saveData(data) writes: the whole document, lastUpdated stamped.
saveData(data) == [data EXCEPT !.lastUpdated = now]

\* loadData() returns the parsed file; a missing or unparsable file is
\* replaced by the empty document, which is saved before it is returned.
loadData(f) == IF f.status = "ok" THEN f.content[1] ELSE saveData(createEmptyFinanceData)

\* Number of writes loadData() itself performs.
loadSaves(f) == IF f.status = "ok" THEN 0 ELSE 1

\* The file is there and can be neither read nor written by the server
\* (no permission, or a directory under that name): readFileSync and
\* writeFileSync both throw.
Unreadable == [status |-> "unreadable", content |-> <<>>]

\* a call of loadData(): the read is inside the try block, the save of the
\* empty document is after it, and saveData rethrows what writeFileSync throws
loadCall(f) ==
    IF f.status = "unreadable"
    THEN [file |-> f, threw |-> TRUE, data |-> None, saves |-> 0]
    ELSE [file |-> Stored(loadData(f)), threw |-> FALSE, data |-> <<loadData(f)>>,
          saves |-> loadSaves(f)]

\* Array.prototype.findIndex on the id field; 0 stands for -1 (not found).
FindIndexById(arr, id) ==
    IF \E i \in DOMAIN arr : arr[i].id = id
    THEN CHOOSE i \in DOMAIN arr : arr[i].id = id /\ \A j \in 1..(i - 1) : arr[j].id # id
    ELSE 0

RemoveAt(arr, i) == [j \in 1..(Len(arr) - 1) |-> IF j < i THEN arr[j] ELSE arr[j + 1]]

today == ISODate(now)

\* ------------------------------------------------------------------ goals
createGoal(name, targetAmount, deadline, currency) ==
    [ id            |-> nextId,
      name          |-> name,
      targetAmount  |-> targetAmount,
      currentAmount |-> 0,
      deadline      |-> deadline,
      createdAt     |-> now,
      currency      |-> currency,
      contributions |-> <<>> ]

\* Each engine call below is a function of the stored file and the inputs;
\* it yields the file it leaves behind, its return value and its write count.
addContribution(f, goalId, amount, note) ==
    LET data == loadData(f)
        i    == FindIndexById(data.savingsGoals, goalId)
    IN  IF i = 0
        THEN [file |-> Stored(data), success |-> FALSE, error |-> "Goal not found",
              saves |-> loadSaves(f)]
        ELSE LET contribution == [id |-> nextId, amount |-> amount,
                                  date |-> today, note |-> note]
                 goal == data.savingsGoals[i]
                 g2   == [goal EXCEPT
                            !.contributions = Append(@, contribution),
                            !.currentAmount = @ + amount]
             IN  [file |-> Stored(saveData([data EXCEPT !.savingsGoals[i] = g2])),
                  success |-> TRUE, error |-> Undefined,
                  saves |-> loadSaves(f) + 1]

\* withdrawFromGoal pushing the amount as given, not negated
withdrawFromGoalUnsigned(f, goalId, amount, note) ==
    LET data == loadData(f)
        i    == FindIndexById(data.savingsGoals, goalId)
    IN  IF i = 0
        THEN [file |-> Stored(data), success |-> FALSE, error |-> "Goal not found",
              saves |-> loadSaves(f)]
        ELSE IF amount > data.savingsGoals[i].currentAmount
        THEN [file |-> Stored(data), success |-> FALSE,
              error |-> "Insufficient funds in goal", saves |-> loadSaves(f)]
        ELSE LET contribution == [id |-> nextId, amount |-> amount, date |-> today,
                                  note |-> IF note = Undefined THEN "Withdrawal" ELSE note]
                 goal == data.savingsGoals[i]
                 g2   == [goal EXCEPT
                            !.contributions = Append(@, contribution),
                            !.currentAmount = @ - amount]
             IN  [file |-> Stored(saveData([data EXCEPT !.savingsGoals[i] = g2])),
                  success |-> TRUE, error |-> Undefined,
                  saves |-> loadSaves(f) + 1]

\* withdrawFromGoal without the balance test
withdrawFromGoalUnchecked(f, goalId, amount, note) ==
    LET data == loadData(f)
        i    == FindIndexById(data.savingsGoals, goalId)
    IN  IF i = 0
        THEN [file |-> Stored(data), success |-> FALSE, error |-> "Goal not found",
              saves |-> loadSaves(f)]
        ELSE LET contribution == [id |-> nextId, amount |-> -amount, date |-> today,
                                  note |-> IF note = Undefined THEN "Withdrawal" ELSE note]
                 goal == data.savingsGoals[i]
                 g2   == [goal EXCEPT
                            !.contributions = Append(@, contribution),
                            !.currentAmount = @ - amount]
             IN  [file |-> Stored(saveData([data EXCEPT !.savingsGoals[i] = g2])),
                  success |-> TRUE, error |-> Undefined,
                  saves |-> loadSaves(f) + 1]

withdrawFromGoal(f, goalId, amount, note) ==
    LET data == loadData(f)
        i    == FindIndexById(data.savingsGoals, goalId)
    IN  IF i = 0
        THEN [file |-> Stored(data), success |-> FALSE, error |-> "Goal not found",
              saves |-> loadSaves(f)]
        ELSE IF amount > data.savingsGoals[i].currentAmount
        THEN [file |-> Stored(data), success |-> FALSE,
              error |-> "Insufficient funds in goal", saves |-> loadSaves(f)]
        ELSE LET contribution == [id |-> nextId, amount |-> -amount,
                                  date |-> today,
                                  note |-> IF note = Undefined THEN "Withdrawal" ELSE note]
                 goal == data.savingsGoals[i]
                 g2   == [goal EXCEPT
                            !.contributions = Append(@, contribution),
                            !.currentAmount = @ - amount]
             IN  [file |-> Stored(saveData([data EXCEPT !.savingsGoals[i] = g2])),
                  success |-> TRUE, error |-> Undefined,
                  saves |-> loadSaves(f) + 1]

deleteGoal(f, id) ==
    LET data == loadData(f)
        i    == FindIndexById(data.savingsGoals, id)
    IN  IF i = 0
        THEN [file |-> Stored(data), success |-> FALSE, saves |-> loadSaves(f)]
        ELSE [file |-> Stored(saveData([data EXCEPT !.savingsGoals = RemoveAt(@, i)])),
              success |-> TRUE, saves |-> loadSaves(f) + 1]

\* updateGoal saving before it looks the goal up
updateGoalSaveFirst(f, id, name, targetAmount, deadline) ==
    LET data == loadData(f)
        i    == FindIndexById(data.savingsGoals, id)
    IN  IF i = 0
        THEN [file |-> Stored(saveData(data)), success |-> FALSE,
              error |-> "Goal not found", saves |-> loadSaves(f) + 1]
        ELSE [file |-> Stored(saveData(data)), success |-> TRUE, error |-> Undefined,
              saves |-> loadSaves(f) + 1]

\* updateGoal: an update that is absent, "" or 0 leaves its field as it is
updateGoal(f, id, name, targetAmount, deadline) ==
    LET data == loadData(f)
        i    == FindIndexById(data.savingsGoals, id)
    IN  IF i = 0
        THEN [file |-> Stored(data), success |-> FALSE, error |-> "Goal not found",
              saves |-> loadSaves(f)]
        ELSE LET goal == data.savingsGoals[i]
                 g2   == [goal EXCEPT
                            !.name = IF name = Undefined \/ name = "" THEN @ ELSE name,
                            !.targetAmount = IF targetAmount = None \/ targetAmount = <<0>>
                                             THEN @ ELSE targetAmount[1],
                            !.deadline = IF deadline = None THEN @ ELSE deadline]
             IN  [file |-> Stored(saveData([data EXCEPT !.savingsGoals[i] = g2])),
                  success |-> TRUE, error |-> Undefined, saves |-> loadSaves(f) + 1]

\* ---------------------------------------------------------- goal progress
\* (a.getFullYear() - b.getFullYear()) * 12 + (a.getMonth() - b.getMonth()),
\* at least 1, on local broken-down times
MonthsBetween(a, b) ==
    IF (a[1] - b[1]) * 12 + (a[2] - b[2]) > 1 THEN (a[1] - b[1]) * 12 + (a[2] - b[2]) ELSE 1

\* Math.ceil(n / d) for d > 0
CeilDiv(n, d) == -((-n) \div d)

\* new Date() moved on by setMonth(getMonth() + months): an instant
MonthsOn(lf, months) == FromLocalFields(lf[1], lf[2] + months, lf[3], lf[4])

\* the goal's progress without the fields the deadline branch sets;
\* percentComplete is the pair <<currentAmount * 100, targetAmount>>
ProgressOf(goal, onTrack, projectedCompletion, monthlyNeeded) ==
    [goal |-> goal,
     percentComplete |-> <<goal.currentAmount * 100, goal.targetAmount>>,
     remaining |-> goal.targetAmount - goal.currentAmount,
     onTrack |-> onTrack,
     projectedCompletion |-> projectedCompletion,
     monthlyNeeded |-> monthlyNeeded]

\* the branch `avgMonthlyContribution > 0`: completion is the instant the
\* target is reached at the average pace; monthsToComplete is
\* remaining / (currentAmount / monthsSinceCreated), taken exactly
ProjectedProgress(goal, t, monthlyNeeded, completion) ==
    ProgressOf(goal, completion <= ParseDate(goal.deadline), <<ISODate(completion)>>,
               monthlyNeeded)

\* monthlyNeeded as the pair <<remaining, monthsRemaining>>
MonthlyNeeded(goal, t) ==
    << <<goal.targetAmount - goal.currentAmount,
         MonthsBetween(LocalFields(ParseDate(goal.deadline)), LocalFields(t))>> >>

Completion(goal, t) ==
    MonthsOn(LocalFields(t),
             CeilDiv((goal.targetAmount - goal.currentAmount)
                        * MonthsBetween(LocalFields(t), LocalFields(goal.createdAt)),
                     goal.currentAmount))

\* the callback with the final `else { onTrack = false }` left out
GoalProgressOnTrackKept(goal, t) ==
    IF goal.deadline = None THEN ProgressOf(goal, TRUE, None, None)
    ELSE IF goal.currentAmount > 0
    THEN ProjectedProgress(goal, t, MonthlyNeeded(goal, t), Completion(goal, t))
    ELSE ProgressOf(goal, TRUE, None, MonthlyNeeded(goal, t))

\* the callback of goals.map, at the instant t of `new Date()`; the average
\* currentAmount / monthsSinceCreated is positive exactly when currentAmount is
GoalProgress(goal, t) ==
    IF goal.deadline = None THEN ProgressOf(goal, TRUE, None, None)
    ELSE IF goal.currentAmount > 0
    THEN ProjectedProgress(goal, t, MonthlyNeeded(goal, t), Completion(goal, t))
    ELSE ProgressOf(goal, FALSE, None, MonthlyNeeded(goal, t))

getGoalsWithProgress(data) ==
    [k \in DOMAIN data.savingsGoals |-> GoalProgress(data.savingsGoals[k], now)]

\* -------------------------------------------------------------- recurring
createRecurringTransaction(amount, type, category, description, frequency, startDate, currency) ==
    LET start == IF startDate = None THEN today ELSE startDate
    IN  [ id            |-> nextId,
          amount        |-> IF amount < 0 THEN -amount ELSE amount,
          type          |-> type,
          category      |-> category,
          description   |-> description,
          frequency     |-> frequency,
          startDate     |-> start,
          nextDue       |-> start,
          lastProcessed |-> None,
          active        |-> TRUE,
          currency      |-> currency ]

\* new Date(currentDate), then setDate / setMonth / setFullYear on the local
\* fields, then the UTC date of the result.
AdvanceLocal(lf, frequency, unchanged) ==
    CASE frequency = "daily"   -> FromLocalFields(lf[1], lf[2], lf[3] + 1, lf[4])
      [] frequency = "weekly"  -> FromLocalFields(lf[1], lf[2], lf[3] + 7, lf[4])
      [] frequency = "monthly" -> FromLocalFields(lf[1], lf[2] + 1, lf[3], lf[4])
      [] frequency = "yearly"  -> FromLocalFields(lf[1] + 1, lf[2], lf[3], lf[4])
      [] OTHER                 -> unchanged

calculateNextDueDate(currentDate, frequency) ==
    ISODate(AdvanceLocal(LocalFields(ParseDate(currentDate)), frequency,
                         ParseDate(currentDate)))

\* the catch-up loop as a single `if`: at most one occurrence per pass
CatchUpOnce(acc, day) ==
    LET recurring == acc.recurring
    IN  IF ~DateLE(recurring.nextDue, day)
        THEN acc
        ELSE LET transaction ==
                     [ id                 |-> nextId + Len(acc.made),
                       date               |-> recurring.nextDue,
                       amount             |-> recurring.amount,
                       category           |-> recurring.category,
                       description        |-> recurring.description \o " (recurring)",
                       type               |-> recurring.type,
                       recurring          |-> TRUE,
                       recurringFrequency |-> recurring.frequency,
                       currency           |-> recurring.currency ]
             IN  [ recurring |-> [recurring EXCEPT
                       !.lastProcessed = recurring.nextDue,
                       !.nextDue = calculateNextDueDate(recurring.nextDue,
                                                        recurring.frequency)],
                   made |-> Append(acc.made, transaction) ]

\* the catch-up loop with `<` for `<=`: an occurrence due today is left for later
RECURSIVE CatchUpStrict(_, _)
CatchUpStrict(acc, day) ==
    LET recurring == acc.recurring
    IN  IF ~DateLT(recurring.nextDue, day)
        THEN acc
        ELSE LET transaction ==
                     [ id                 |-> nextId + Len(acc.made),
                       date               |-> recurring.nextDue,
                       amount             |-> recurring.amount,
                       category           |-> recurring.category,
                       description        |-> recurring.description \o " (recurring)",
                       type               |-> recurring.type,
                       recurring          |-> TRUE,
                       recurringFrequency |-> recurring.frequency,
                       currency           |-> recurring.currency ]
             IN  CatchUpStrict([ recurring |-> [recurring EXCEPT
                                     !.lastProcessed = recurring.nextDue,
                                     !.nextDue = calculateNextDueDate(recurring.nextDue,
                                                                      recurring.frequency)],
                                 made |-> Append(acc.made, transaction) ], day)

\* The while loop of processRecurringTransactions for one entry: acc is
\* [recurring, made], made being the transactions pushed so far in the pass.
RECURSIVE CatchUp(_, _)
CatchUp(acc, day) ==
    LET Round(a) ==
            LET recurring == a.recurring
            IN  IF ~DateLE(recurring.nextDue, day)
                THEN a
                ELSE LET transaction ==
                             [ id                 |-> nextId + Len(a.made),
                               date               |-> recurring.nextDue,
                               amount             |-> recurring.amount,
                               category           |-> recurring.category,
                               description        |-> recurring.description \o " (recurring)",
                               type               |-> recurring.type,
                               recurring          |-> TRUE,
                               recurringFrequency |-> recurring.frequency,
                               currency           |-> recurring.currency ]
                     IN  CatchUp([ recurring |-> [recurring EXCEPT
                                       !.lastProcessed = recurring.nextDue,
                                       !.nextDue = calculateNextDueDate(recurring.nextDue,
                                                                        recurring.frequency)],
                                   made |-> Append(a.made, transaction) ], day)
    \* acc is taken by value: one round per value of the loop's variables
    IN  CHOOSE out \in {Round(a) : a \in {acc}} : TRUE

\* The for loop over recurringList: st is [list, made], i the next index.
RECURSIVE ProcessFrom(_, _, _)
RECURSIVE ProcessFromAll(_, _, _)
\* the for loop without the `if (!recurring.active) continue`
ProcessFromAll(st, i, day) ==
    IF i > Len(st.list)
    THEN st
    ELSE LET r == CatchUp([recurring |-> st.list[i], made |-> st.made], day)
         IN  ProcessFromAll([list |-> [st.list EXCEPT ![i] = r.recurring],
                             made |-> r.made], i + 1, day)

ProcessFrom(st, i, day) ==
    LET Entry(s) ==
            IF i > Len(s.list)
            THEN s
            ELSE IF ~s.list[i].active
            THEN ProcessFrom(s, i + 1, day)
            ELSE LET Loop(r) == ProcessFrom([list |-> [s.list EXCEPT ![i] = r.recurring],
                                             made |-> r.made], i + 1, day)
                 IN  CHOOSE out \in {Loop(r) : r \in {CatchUp([recurring |-> s.list[i],
                                                                made |-> s.made], day)}} : TRUE
    \* st is taken by value
    IN  CHOOSE out \in {Entry(s) : s \in {st}} : TRUE

\* The while loop of one entry never exits: some advance of nextDue, reached
\* while nextDue <= today, does not yield a later date, so the same dates come
\* round again and the condition stays true.
RECURSIVE LoopsForever(_, _, _)
LoopsForever(nextDue, frequency, day) ==
    /\ DateLE(nextDue, day)
    /\ \/ ~DateLT(nextDue, calculateNextDueDate(nextDue, frequency))
       \/ LoopsForever(calculateNextDueDate(nextDue, frequency), frequency, day)

\* The for loop reaches an active entry whose while loop never exits (the
\* entries before it have finished).
NeverReturns(list, day) ==
    \E i \in DOMAIN list :
        list[i].active /\ LoopsForever(list[i].nextDue, list[i].frequency, day)

\* processRecurringTransactions saving whether or not anything was materialized
processRecurringTransactionsAlwaysSave(f) ==
    LET data  == loadData(f)
        st    == ProcessFrom([list |-> data.recurringTransactions, made |-> <<>>],
                             1, today)
        data2 == [data EXCEPT !.transactions = @ \o st.made,
                              !.recurringTransactions = st.list]
    IN  [file |-> Stored(saveData(data2)), processed |-> Len(st.made),
         transactions |-> st.made, saves |-> loadSaves(f) + 1, returns |-> TRUE]

\* returns is FALSE when the function never reaches its return statement: the
\* loop runs until the process is stopped, and nothing it pushed is saved.
processRecurringTransactions(f) ==
    LET data  == loadData(f)
        st    == ProcessFrom([list |-> data.recurringTransactions, made |-> <<>>],
                             1, today)
        data2 == [data EXCEPT !.transactions = @ \o st.made,
                              !.recurringTransactions = st.list]
    IN  IF NeverReturns(data.recurringTransactions, today)
        THEN [file |-> Stored(data), processed |-> 0, transactions |-> <<>>,
              saves |-> loadSaves(f), returns |-> FALSE]
        ELSE IF Len(st.made) > 0
        THEN [file |-> Stored(saveData(data2)), processed |-> Len(st.made),
              transactions |-> st.made, saves |-> loadSaves(f) + 1, returns |-> TRUE]
        ELSE [file |-> Stored(data), processed |-> Len(st.made),
              transactions |-> st.made, saves |-> loadSaves(f), returns |-> TRUE]

\* toggleRecurringTransaction restarting the schedule of a resumed entry at today
toggleRecurringTransactionFromToday(f, id, active) ==
    LET data == loadData(f)
        i    == FindIndexById(data.recurringTransactions, id)
    IN  IF i = 0
        THEN [file |-> Stored(data), success |-> FALSE, saves |-> loadSaves(f)]
        ELSE [file |-> Stored(saveData(
                  [data EXCEPT !.recurringTransactions[i].active = active,
                               !.recurringTransactions[i].nextDue =
                                   IF active /\ DateLT(@, today) THEN today ELSE @])),
              success |-> TRUE, saves |-> loadSaves(f) + 1]

toggleRecurringTransaction(f, id, active) ==
    LET data == loadData(f)
        i    == FindIndexById(data.recurringTransactions, id)
    IN  IF i = 0
        THEN [file |-> Stored(data), success |-> FALSE, saves |-> loadSaves(f)]
        ELSE [file |-> Stored(saveData(
                  [data EXCEPT !.recurringTransactions[i].active = active])),
              success |-> TRUE, saves |-> loadSaves(f) + 1]

deleteRecurringTransaction(f, id) ==
    LET data == loadData(f)
        i    == FindIndexById(data.recurringTransactions, id)
    IN  IF i = 0
        THEN [file |-> Stored(data), success |-> FALSE, saves |-> loadSaves(f)]
        ELSE [file |-> Stored(saveData(
                  [data EXCEPT !.recurringTransactions = RemoveAt(@, i)])),
              success |-> TRUE, saves |-> loadSaves(f) + 1]

\* --------------------------------------------------------------- currency
\* 24 * 60 * 60 * 1000 ms, in hours.
CACHE_DURATION_MS == 24

\* Rate tables the provider can answer with.
LiveRatesA == [DEFAULT_EXCHANGE_RATES EXCEPT ![EUR] = 93, ![INR] = 8350]
LiveRatesB == [DEFAULT_EXCHANGE_RATES EXCEPT ![EUR] = 91, ![GBP] = 80]

\* fetchExchangeRates() resolves to a rate table, or to null (None) on a
\* non-ok response, a network error or an unparsable body.
FetchOutcomes == {None, <<LiveRatesA>>, <<LiveRatesB>>}

\* the freshness test with `<=` for `<`: a cache exactly 24 hours old still counts as fresh
CacheFreshInclusive(data, t) ==
    /\ data.exchangeRates # None
    /\ t - data.exchangeRates[1].lastUpdated <= CACHE_DURATION_MS

\* The freshness test of updateExchangeRatesIfStale, taken at instant t.
CacheFresh(data, t) ==
    /\ data.exchangeRates # None
    /\ t - data.exchangeRates[1].lastUpdated < CACHE_DURATION_MS

\* updateExchangeRatesIfStale up to its await: either it returns the cached
\* rates at once (fetch = FALSE) or it suspends on the provider, holding data.
updateExchangeRatesIfStale(f) ==
    LET data == loadData(f)
    IN  IF CacheFresh(data, now)
        THEN [file |-> Stored(data), fetch |-> FALSE, data |-> data,
              rates |-> data.exchangeRates[1].rates, saves |-> loadSaves(f)]
        ELSE [file |-> Stored(data), fetch |-> TRUE, data |-> data,
              rates |-> None, saves |-> loadSaves(f)]

\* the resumed call falling back to the default table even when it holds cached rates
updateExchangeRatesResumeDefaultOnly(f, data, freshRates) ==
    IF freshRates # None
    THEN [file |-> Stored(saveData([data EXCEPT !.exchangeRates =
                      << [rates |-> freshRates[1], lastUpdated |-> now] >>])),
          rates |-> freshRates[1], saves |-> 1]
    ELSE [file |-> f, rates |-> DEFAULT_EXCHANGE_RATES, saves |-> 0]

\* the resumed call loading the document again before it stores the rates
updateExchangeRatesResumeReload(f, data, freshRates) ==
    IF freshRates # None
    THEN [file |-> Stored(saveData([loadData(f) EXCEPT !.exchangeRates =
                      << [rates |-> freshRates[1], lastUpdated |-> now] >>])),
          rates |-> freshRates[1], saves |-> 1]
    ELSE [file |-> f,
          rates |-> IF data.exchangeRates # None
                    THEN data.exchangeRates[1].rates
                    ELSE DEFAULT_EXCHANGE_RATES,
          saves |-> 0]

\* updateExchangeRatesIfStale after the await, with the provider's answer;
\* data is the document this call loaded before it suspended.
updateExchangeRatesResume(f, data, freshRates) ==
    IF freshRates # None
    THEN [file |-> Stored(saveData([data EXCEPT !.exchangeRates =
                      << [rates |-> freshRates[1], lastUpdated |-> now] >>])),
          rates |-> freshRates[1], saves |-> 1]
    ELSE [file |-> f,
          rates |-> IF data.exchangeRates # None
                    THEN data.exchangeRates[1].rates
                    ELSE DEFAULT_EXCHANGE_RATES,
          saves |-> 0]

\* setDefaultCurrency storing the code as it was given
setDefaultCurrencyRaw(f, currency) ==
    LET data == loadData(f)
        upperCurrency == ToUpperCase(currency)
    IN  IF ~Includes(SUPPORTED_CURRENCIES, upperCurrency)
        THEN [file |-> Stored(data), success |-> FALSE, saves |-> loadSaves(f)]
        ELSE [file |-> Stored(saveData([data EXCEPT !.defaultCurrency = currency])),
              success |-> TRUE, saves |-> loadSaves(f) + 1]

setDefaultCurrency(f, currency) ==
    LET data == loadData(f)
        upperCurrency == ToUpperCase(currency)
    IN  IF ~Includes(SUPPORTED_CURRENCIES, upperCurrency)
        THEN [file |-> Stored(data), success |-> FALSE, saves |-> loadSaves(f)]
        ELSE [file |-> Stored(saveData([data EXCEPT !.defaultCurrency = upperCurrency])),
              success |-> TRUE, saves |-> loadSaves(f) + 1]

\* exchangeRates[code] || 1, in hundredths: a code the table lacks, or a
\* rate of 0, counts as 1
RateOrOne(exchangeRates, code) ==
    IF code \in DOMAIN exchangeRates /\ exchangeRates[code] # 0
    THEN exchangeRates[code]
    ELSE 100

\* Math.round(n / d) for d > 0: the nearest integer, a half going up
RoundDiv(n, d) == (n \div d) + (IF 2 * (n % d) >= d THEN 1 ELSE 0)

\* n / d cut to the integer below it
FloorDiv(n, d) == n \div d

\* the steps of convertCurrency after the codes are told apart; the amount
\* is in thousandths, the returned amount a whole number of hundredths
\* written in thousandths, the returned rate in ten-thousandths
ConvertAt(amount, fromRate, toRate) ==
    [convertedAmount |-> 10 * RoundDiv(amount * toRate, 10 * fromRate),
     rate            |-> RoundDiv(10000 * toRate, fromRate)]

\* convertCurrency rounding the amount in the equal-codes branch as well
convertCurrencyRoundingAll(amount, fromCurrency, toCurrency, rates) ==
    ConvertAt(amount,
              RateOrOne(IF rates = None THEN DEFAULT_EXCHANGE_RATES ELSE rates[1],
                        ToUpperCase(fromCurrency)),
              RateOrOne(IF rates = None THEN DEFAULT_EXCHANGE_RATES ELSE rates[1],
                        IF ToUpperCase(fromCurrency) = ToUpperCase(toCurrency)
                        THEN ToUpperCase(fromCurrency) ELSE ToUpperCase(toCurrency)))

\* convertCurrency cutting the amount to hundredths instead of rounding it
convertCurrencyTruncating(amount, fromCurrency, toCurrency, rates) ==
    IF ToUpperCase(fromCurrency) = ToUpperCase(toCurrency)
    THEN [convertedAmount |-> amount, rate |-> 10000]
    ELSE [convertedAmount |->
             10 * FloorDiv(amount * RateOrOne(IF rates = None THEN DEFAULT_EXCHANGE_RATES
                                              ELSE rates[1], ToUpperCase(toCurrency)),
                           10 * RateOrOne(IF rates = None THEN DEFAULT_EXCHANGE_RATES
                                          ELSE rates[1], ToUpperCase(fromCurrency))),
          rate |-> 10000]

\* convertCurrency(amount, fromCurrency, toCurrency, rates?); the arithmetic
\* is exact where the code's is in doubles
convertCurrency(amount, fromCurrency, toCurrency, rates) ==
    IF ToUpperCase(fromCurrency) = ToUpperCase(toCurrency)
    THEN [convertedAmount |-> amount, rate |-> 10000]
    ELSE ConvertAt(amount,
                   RateOrOne(IF rates = None THEN DEFAULT_EXCHANGE_RATES ELSE rates[1],
                             ToUpperCase(fromCurrency)),
                   RateOrOne(IF rates = None THEN DEFAULT_EXCHANGE_RATES ELSE rates[1],
                             ToUpperCase(toCurrency)))

\* ----------------------------------------------------------- REST handlers
\* POST /api/transactions
postTransaction(f, amount, type, description, category, date, currency) ==
    LET data == loadData(f)
        transaction ==
            [ id                 |-> nextId,
              date               |-> IF date = None THEN today ELSE date,
              amount             |-> IF amount < 0 THEN -amount ELSE amount,
              category           |-> category,
              description        |-> description,
              type               |-> type,
              recurring          |-> FALSE,
              recurringFrequency |-> Undefined,
              currency           |-> currency ]
    IN  [file |-> Stored(saveData([data EXCEPT !.transactions = Append(@, transaction)])),
         transaction |-> transaction, saves |-> loadSaves(f) + 1]

\* POST /api/goals
postGoal(f, name, targetAmount, deadline) ==
    LET data == loadData(f)
        goal == createGoal(name, targetAmount, deadline, data.defaultCurrency)
    IN  [file |-> Stored(saveData([data EXCEPT !.savingsGoals = Append(@, goal)])),
         goal |-> goal, saves |-> loadSaves(f) + 1]

\* POST /api/recurring
postRecurring(f, amount, type, category, description, frequency, startDate) ==
    LET data == loadData(f)
        recurring == createRecurringTransaction(amount, type, category, description,
                                                frequency, startDate, None)
    IN  [file |-> Stored(saveData([data EXCEPT !.recurringTransactions =
                                                  Append(@, recurring)])),
         recurring |-> recurring, saves |-> loadSaves(f) + 1]

\* ----------------------------------------------------------- data helpers
\* date.getMonth() === currentMonth && date.getFullYear() === currentYear,
\* on local broken-down times
SameMonth(lf, nowLf) == lf[1] = nowLf[1] /\ lf[2] = nowLf[2]

getCurrentMonthTransactions(data) ==
    SelectSeq(data.transactions,
              LAMBDA t : SameMonth(LocalFields(ParseDate(t.date)), LocalFields(now)))

\* the decimal digits, in order
DigitChars == <<"0", "1", "2", "3", "4", "5", "6", "7", "8", "9">>

\* the number a string of digits writes
RECURSIVE IndexValue(_)
IndexValue(key) ==
    IF key = <<>> THEN 0
    ELSE IndexValue(SubSeq(key, 1, Len(key) - 1)) * 10
         + (CHOOSE n \in 0..9 : DigitChars[n + 1] = key[Len(key)])

\* the property key is an integer index: the canonical decimal form of an
\* integer below 2^32 - 1 (every such string of up to nine digits)
IsArrayIndex(key) ==
    /\ Len(key) \in 1..9
    /\ \A i \in DOMAIN key : \E n \in 1..10 : DigitChars[n] = key[i]
    /\ (Len(key) = 1 \/ key[1] # "0")

\* a new own property put into the object: integer indices come first in
\* ascending order, the other keys after them in the order of creation
DefineKey(spending, entry) ==
    IF IsArrayIndex(entry.category)
    THEN LET k == Cardinality({i \in DOMAIN spending :
                      /\ IsArrayIndex(spending[i].category)
                      /\ IndexValue(spending[i].category) < IndexValue(entry.category)})
         IN  SubSeq(spending, 1, k) \o <<entry>> \o SubSeq(spending, k + 1, Len(spending))
    ELSE Append(spending, entry)

\* spending[t.category] = (spending[t.category] || 0) + t.amount; the object
\* is the sequence of its entries in the order Object.entries walks them
AddSpending(spending, t) ==
    IF \E k \in DOMAIN spending : spending[k].category = t.category
    THEN [k \in DOMAIN spending |->
             IF spending[k].category = t.category
             THEN [category |-> t.category, amount |-> spending[k].amount + t.amount]
             ELSE spending[k]]
    ELSE DefineKey(spending, [category |-> t.category, amount |-> t.amount])

RECURSIVE SpendingFrom(_, _)
SpendingFrom(spending, transactions) ==
    IF transactions = <<>>
    THEN spending
    ELSE SpendingFrom(AddSpending(spending, Head(transactions)), Tail(transactions))

calculateSpendingByCategory(transactions) ==
    SpendingFrom(<<>>, SelectSeq(transactions, LAMBDA t : t.type = "expense"))

\* spending[category] || 0
SpentIn(spending, category) ==
    IF \E k \in DOMAIN spending : spending[k].category = category
    THEN spending[CHOOSE k \in DOMAIN spending : spending[k].category = category].amount
    ELSE 0

\* DELETE /api/transactions/:id
deleteTransaction(f, id) ==
    LET data  == loadData(f)
        index == FindIndexById(data.transactions, id)
    IN  IF index = 0
        THEN [file |-> Stored(data), status |-> 404, saves |-> loadSaves(f)]
        ELSE [file |-> Stored(saveData([data EXCEPT !.transactions = RemoveAt(@, index)])),
              status |-> 200, saves |-> loadSaves(f) + 1]

\* -------------------------------------------------------------- analytics
\* (spent / limit) * 100 > p, the comparison of PercentAtLeast made strict
PercentAbove(spent, limit, p) ==
    IF limit > 0 THEN spent * 100 > p * limit
    ELSE IF limit = 0 THEN spent > 0
    ELSE spent * 100 < p * limit

\* (spent / limit) * 100 >= p, in exact arithmetic; a limit of 0 makes the
\* quotient Infinity (spent > 0) or NaN (spent = 0), and NaN >= p is false
PercentAtLeast(spent, limit, p) ==
    IF limit > 0 THEN spent * 100 >= p * limit
    ELSE IF limit = 0 THEN spent > 0
    ELSE spent * 100 <= p * limit

\* the body of the for loop of checkBudgetAlerts: the insights one budget adds
BudgetAlert(budget, spent) ==
    IF PercentAtLeast(spent, budget.limit, 100)
    THEN << [type |-> "warning", message |-> "Budget EXCEEDED",
             category |-> budget.category, amount |-> spent - budget.limit,
             amounts |-> <<spent, budget.limit>>] >>
    ELSE IF PercentAtLeast(spent, budget.limit, budget.alertThreshold)
    THEN << [type |-> "warning", message |-> "budget at percent",
             category |-> budget.category, amount |-> budget.limit - spent,
             amounts |-> <<spent, budget.limit>>] >>
    ELSE <<>>

RECURSIVE AlertsFrom(_, _)
AlertsFrom(budgets, spending) ==
    IF budgets = <<>>
    THEN <<>>
    ELSE BudgetAlert(Head(budgets), SpentIn(spending, Head(budgets).category))
            \o AlertsFrom(Tail(budgets), spending)

checkBudgetAlerts(data) ==
    AlertsFrom(data.budgets, calculateSpendingByCategory(getCurrentMonthTransactions(data)))

\* .reduce((sum, t) => sum + t.amount, 0)
RECURSIVE SumAmounts(_)
SumAmounts(transactions) ==
    IF transactions = <<>> THEN 0
    ELSE Head(transactions).amount + SumAmounts(Tail(transactions))

\* x put into a list sorted by descending amount, behind the entries that
\* compare equal to it: Array.prototype.sort is stable
InsertSorted(sorted, x) ==
    LET k == Cardinality({i \in DOMAIN sorted : sorted[i].amount >= x.amount})
    IN  SubSeq(sorted, 1, k) \o <<x>> \o SubSeq(sorted, k + 1, Len(sorted))

\* .sort((a, b) => b.amount - a.amount)
RECURSIVE SortByAmountDesc(_)
SortByAmountDesc(entries) ==
    IF entries = <<>> THEN <<>>
    ELSE InsertSorted(SortByAmountDesc(SubSeq(entries, 1, Len(entries) - 1)),
                      entries[Len(entries)])

\* .slice(0, 5)
TopFive(entries) == SubSeq(entries, 1, IF Len(entries) < 5 THEN Len(entries) ELSE 5)

\* analyzeSpending once the month's transactions are picked; byCategory
\* keeps the key order of the object, which Object.entries walks
AnalyzeMonth(monthlyTransactions) ==
    [totalIncome   |-> SumAmounts(SelectSeq(monthlyTransactions,
                                            LAMBDA t : t.type = "income")),
     totalExpenses |-> SumAmounts(SelectSeq(monthlyTransactions,
                                            LAMBDA t : t.type = "expense")),
     netSavings    |-> SumAmounts(SelectSeq(monthlyTransactions,
                                            LAMBDA t : t.type = "income"))
                       - SumAmounts(SelectSeq(monthlyTransactions,
                                              LAMBDA t : t.type = "expense")),
     byCategory    |-> calculateSpendingByCategory(monthlyTransactions),
     topCategories |-> TopFive(SortByAmountDesc(
                           calculateSpendingByCategory(monthlyTransactions)))]

analyzeSpending(data) == AnalyzeMonth(getCurrentMonthTransactions(data))

\* new Date(t.date).getDay(): 0 is Sunday; day 0 of the epoch was a Thursday
GetDay(date) == (((ParseDate(date) + OffsetAt(ParseDate(date))) \div 24) + 4) % 7

IsWeekend(t) == GetDay(t.date) = 0 \/ GetDay(t.date) = 6

\* Math.max(a, b, c)
Max3(a, b, c) == IF a >= b /\ a >= c THEN a ELSE IF b >= c THEN b ELSE c

\* |a - b|
AbsDiff(a, b) == IF a >= b THEN a - b ELSE b - a

\* at least 1: an average over no transactions is 0 / 1
AtLeastOne(n) == IF n = 0 THEN 1 ELSE n

\* difference > 20 in analyzeWeekdayVsWeekend, with both averages brought to
\* the common denominator wdCount * weCount
WeekSplitOver20(wdTotal, wdCount, weTotal, weCount) ==
    AbsDiff(weTotal * wdCount, wdTotal * weCount) * 100
       > 20 * Max3(wdTotal * weCount, weTotal * wdCount, wdCount * weCount)

WeekdayWeekendDiffers(expenses) ==
    WeekSplitOver20(SumAmounts(SelectSeq(expenses, LAMBDA t : ~IsWeekend(t))),
                    AtLeastOne(Len(SelectSeq(expenses, LAMBDA t : ~IsWeekend(t)))),
                    SumAmounts(SelectSeq(expenses, LAMBDA t : IsWeekend(t))),
                    AtLeastOne(Len(SelectSeq(expenses, LAMBDA t : IsWeekend(t)))))

\* the savings-rate step with the silent band closed at 20
SavingsInsightLate(analysis) ==
    IF analysis.totalIncome > 0
    THEN IF analysis.netSavings < 0
         THEN << [type |-> "warning", message |-> "spending more than you earn",
                  amounts |-> <<-analysis.netSavings>>] >>
         ELSE IF analysis.netSavings * 100 < 10 * analysis.totalIncome
         THEN << [type |-> "tip", message |-> "Aim for at least 20%"] >>
         ELSE IF analysis.netSavings * 100 > 20 * analysis.totalIncome
         THEN << [type |-> "info", message |-> "Great job"] >>
         ELSE <<>>
    ELSE <<>>

\* generateInsights, the savings-rate step; savingsRate is
\* netSavings / totalIncome * 100 and is compared in exact arithmetic
SavingsInsight(analysis) ==
    IF analysis.totalIncome > 0
    THEN IF analysis.netSavings < 0
         THEN << [type |-> "warning", message |-> "spending more than you earn",
                  amounts |-> <<-analysis.netSavings>>] >>
         ELSE IF analysis.netSavings * 100 < 10 * analysis.totalIncome
         THEN << [type |-> "tip", message |-> "Aim for at least 20%"] >>
         ELSE IF analysis.netSavings * 100 >= 20 * analysis.totalIncome
         THEN << [type |-> "info", message |-> "Great job"] >>
         ELSE <<>>
    ELSE <<>>

\* generateInsights, the top-category step
TopCategoryInsight(analysis) ==
    IF Len(analysis.topCategories) > 0
    THEN << [type |-> "info", message |-> "biggest expense category",
             amounts |-> <<analysis.topCategories[1].amount>>] >>
    ELSE <<>>

\* generateInsights, the weekday / weekend step
WeekInsight(data) ==
    IF WeekdayWeekendDiffers(SelectSeq(getCurrentMonthTransactions(data),
                                       LAMBDA t : t.type = "expense"))
    THEN << [type |-> "tip", message |-> "Consider balancing your spending"] >>
    ELSE <<>>

generateInsights(data) ==
    checkBudgetAlerts(data) \o SavingsInsight(analyzeSpending(data))
       \o TopCategoryInsight(analyzeSpending(data)) \o WeekInsight(data)

\* GET /api/analytics/spending
getSpending(f) ==
    [file |-> Stored(loadData(f)), analysis |-> analyzeSpending(loadData(f)),
     saves |-> loadSaves(f)]

\* GET /api/analytics/insights
getInsights(f) ==
    [file |-> Stored(loadData(f)), insights |-> generateInsights(loadData(f)),
     saves |-> loadSaves(f)]

\* GET /api/budgets reporting the spent field of the stored budget
BudgetStatusStored(b, spent) ==
    [category |-> b.category, limit |-> b.limit, alertThreshold |-> b.alertThreshold,
     spent |-> b.spent, remaining |-> b.limit - b.spent,
     percentUsed |-> <<b.spent * 100, b.limit>>]

\* One element of the GET /api/budgets answer; percentUsed is kept as the
\* pair <<spent * 100, limit>> of its numerator and denominator.
BudgetStatus(b, spent) ==
    [category |-> b.category, limit |-> b.limit, alertThreshold |-> b.alertThreshold,
     spent |-> spent, remaining |-> b.limit - spent,
     percentUsed |-> <<spent * 100, b.limit>>]

BudgetStatuses(budgets, spending) ==
    [k \in DOMAIN budgets |-> BudgetStatus(budgets[k], SpentIn(spending, budgets[k].category))]

\* GET /api/budgets
getBudgets(f) ==
    [file |-> Stored(loadData(f)),
     budgets |-> BudgetStatuses(loadData(f).budgets,
                     calculateSpendingByCategory(getCurrentMonthTransactions(loadData(f)))),
     saves |-> loadSaves(f)]

\* GET /api/analytics/alerts
getAlerts(f) ==
    [file |-> Stored(loadData(f)), alerts |-> checkBudgetAlerts(loadData(f)),
     saves |-> loadSaves(f)]

\* ---------------------------------------------------------------- budgets
\* findIndex comparing the categories as they are written
FindBudgetIndexExact(budgets, category) ==
    IF \E i \in DOMAIN budgets : budgets[i].category = category
    THEN CHOOSE i \in DOMAIN budgets :
            /\ budgets[i].category = category
            /\ \A j \in 1..(i - 1) : budgets[j].category # category
    ELSE 0

\* data.budgets.findIndex(b => b.category.toLowerCase() === category.toLowerCase());
\* 0 stands for -1 (not found).
FindBudgetIndex(budgets, category) ==
    IF \E i \in DOMAIN budgets : ToLowerCase(budgets[i].category) = ToLowerCase(category)
    THEN CHOOSE i \in DOMAIN budgets :
            /\ ToLowerCase(budgets[i].category) = ToLowerCase(category)
            /\ \A j \in 1..(i - 1) :
                  ToLowerCase(budgets[j].category) # ToLowerCase(category)
    ELSE 0

\* The shared tail of both set-budget adapters: replace in place or push, then save.
PutBudget(f, budget) ==
    LET data == loadData(f)
        existingIndex == FindBudgetIndex(data.budgets, budget.category)
    IN  [file |-> Stored(saveData([data EXCEPT !.budgets =
                      IF existingIndex > 0
                      THEN [@ EXCEPT ![existingIndex] = budget]
                      ELSE Append(@, budget)])),
         budget |-> budget, saves |-> loadSaves(f) + 1]

\* POST /api/budgets; alertThreshold = 80 when the body has none (None).
postBudget(f, category, limit, alertThreshold) ==
    PutBudget(f, [category |-> category, limit |-> limit, spent |-> 0,
                  alertThreshold |-> IF alertThreshold = None THEN 80
                                     ELSE alertThreshold[1]])

\* the set_budget tool; (args.alertThreshold as number) || 80
handleSetBudget(f, category, limit, alertThreshold) ==
    PutBudget(f, [category |-> category, limit |-> limit, spent |-> 0,
                  alertThreshold |-> IF alertThreshold = None \/ alertThreshold = <<0>>
                                     THEN 80 ELSE alertThreshold[1]])

\* DELETE /api/budgets/:category
deleteBudget(f, category) ==
    LET data  == loadData(f)
        index == FindBudgetIndex(data.budgets, category)
    IN  IF index = 0
        THEN [file |-> Stored(data), status |-> 404, saves |-> loadSaves(f)]
        ELSE [file |-> Stored(saveData([data EXCEPT !.budgets = RemoveAt(@, index)])),
              status |-> 200, saves |-> loadSaves(f) + 1]

\* ------------------------------------------------------ auto-categorization
\* A description is a string; Len, SubSeq and \o read it as the sequence of
\* its characters.
RECURSIVE LowerString(_)
\* String.prototype.toLowerCase on a string.
LowerString(s) ==
    IF Len(s) = 0 THEN ""
    ELSE LowerChar(SubSeq(s, 1, 1)) \o LowerString(SubSeq(s, 2, Len(s)))

\* String.prototype.includes
StringIncludes(s, keyword) ==
    \E i \in 1..(Len(s) - Len(keyword) + 1) : SubSeq(s, i, i + Len(keyword) - 1) = keyword

\* Object.entries(CATEGORY_KEYWORDS): the keys are not integers, so the
\* entries come in the order they are written in.
CATEGORY_KEYWORDS ==
    << <<"Food & Dining", <<"restaurant", "cafe", "coffee", "pizza", "burger", "sushi", "lunch",
                            "dinner", "breakfast", "doordash", "uber eats", "grubhub">> >>,
       <<"Groceries", <<"grocery", "supermarket", "walmart", "costco", "trader joe",
                        "whole foods", "kroger", "safeway", "target">> >>,
       <<"Transportation", <<"uber", "lyft", "gas", "fuel", "parking", "metro", "subway", "bus",
                             "train", "airline", "flight">> >>,
       <<"Shopping", <<"amazon", "ebay", "mall", "store", "shop", "buy", "purchase">> >>,
       <<"Entertainment", <<"netflix", "spotify", "movie", "theater", "concert", "game", "steam",
                            "playstation", "xbox">> >>,
       <<"Bills & Utilities", <<"electric", "water", "internet", "phone", "rent", "mortgage",
                                "insurance", "utility">> >>,
       <<"Subscriptions", <<"subscription", "membership", "monthly", "annual", "premium">> >>,
       <<"Healthcare", <<"doctor", "hospital", "pharmacy", "medicine", "dental", "vision",
                         "health">> >>,
       <<"Education", <<"book", "course", "tuition", "school", "university", "udemy",
                        "coursera">> >>,
       <<"Personal Care", <<"salon", "spa", "haircut", "gym", "fitness">> >>,
       <<"Travel", <<"hotel", "airbnb", "booking", "vacation", "trip">> >>,
       <<"Income", <<"salary", "paycheck", "deposit", "refund", "cashback", "dividend",
                     "interest">> >> >>

\* the inner loop: the first keyword from index k on that the text includes
RECURSIVE AnyKeywordFrom(_, _, _)
AnyKeywordFrom(text, keywords, k) ==
    IF k > Len(keywords) THEN FALSE
    ELSE IF StringIncludes(text, keywords[k]) THEN TRUE
    ELSE AnyKeywordFrom(text, keywords, k + 1)

\* the outer loop from entry i on, over the text as it is given
RECURSIVE SuggestFrom(_, _)
SuggestFrom(text, i) ==
    IF i > Len(CATEGORY_KEYWORDS) THEN "Other"
    ELSE IF AnyKeywordFrom(text, CATEGORY_KEYWORDS[i][2], 1) THEN CATEGORY_KEYWORDS[i][1]
    ELSE SuggestFrom(text, i + 1)

\* the description compared as it is written
suggestCategoryCaseSensitive(description) == SuggestFrom(description, 1)

suggestCategory(description) == SuggestFrom(LowerString(description), 1)

\* ------------------------------------------------------------- CSV export
\* The string of a sequence of characters (a category, a currency code).
RECURSIVE Text(_)
Text(chars) == IF chars = <<>> THEN "" ELSE chars[1] \o Text(Tail(chars))

\* String(n) for an integer n >= 0
RECURSIVE Digits(_)
Digits(n) == IF n < 10 THEN DigitChars[n + 1] ELSE Digits(n \div 10) \o DigitChars[(n % 10) + 1]

\* String(n) for an integer
NumberString(n) == IF n < 0 THEN "-" \o Digits(-n) ELSE Digits(n)

\* The string "YYYY-MM-DD" that the triple d stands for.
DateString(d) ==
    Digits(d[1]) \o "-" \o (IF d[2] < 10 THEN "0" ELSE "") \o Digits(d[2])
                 \o "-" \o (IF d[3] < 10 THEN "0" ELSE "") \o Digits(d[3])

\* str.includes(ch) for a single character
HasChar(str, ch) == \E i \in 1..Len(str) : SubSeq(str, i, i) = ch

\* str.replace(/"/g, '""')
RECURSIVE DoubleQuotes(_)
DoubleQuotes(str) ==
    IF Len(str) = 0 THEN ""
    ELSE (IF SubSeq(str, 1, 1) = "\"" THEN "\"\"" ELSE SubSeq(str, 1, 1))
            \o DoubleQuotes(SubSeq(str, 2, Len(str)))

\* escapeCSV that wraps a field in quotes without doubling the quotes inside
escapeCSVQuotesKept(value) ==
    IF value = Undefined THEN ""
    ELSE IF HasChar(value, ",") \/ HasChar(value, "\"") \/ HasChar(value, "\n")
    THEN "\"" \o value \o "\""
    ELSE value

\* value is the string String(value), or Undefined
escapeCSV(value) ==
    IF value = Undefined THEN ""
    ELSE IF HasChar(value, ",") \/ HasChar(value, "\"") \/ HasChar(value, "\n")
    THEN "\"" \o DoubleQuotes(value) \o "\""
    ELSE value

\* arr.join(sep)
RECURSIVE Join(_, _)
Join(arr, sep) ==
    IF arr = <<>> THEN ""
    ELSE IF Len(arr) = 1 THEN arr[1]
    ELSE arr[1] \o sep \o Join(Tail(arr), sep)

\* x put into a list sorted by ascending date, behind the entries of the same
\* date: the sort is stable, and localeCompare orders "YYYY-MM-DD" strings as
\* dates
InsertByDate(sorted, x) ==
    SubSeq(sorted, 1, Cardinality({i \in DOMAIN sorted : DateLE(sorted[i].date, x.date)}))
      \o <<x>>
      \o SubSeq(sorted, Cardinality({i \in DOMAIN sorted : DateLE(sorted[i].date, x.date)}) + 1,
                Len(sorted))

\* transactions.sort((a, b) => a.date.localeCompare(b.date))
RECURSIVE SortByDate(_)
SortByDate(transactions) ==
    IF transactions = <<>> THEN <<>>
    ELSE InsertByDate(SortByDate(SubSeq(transactions, 1, Len(transactions) - 1)),
                      transactions[Len(transactions)])

\* the filters of the options, each applied when it is given
FilterTransactions(transactions, options) ==
    SelectSeq(transactions,
              LAMBDA t :
                  /\ options.startDate # None => DateLE(options.startDate, t.date)
                  /\ options.endDate # None => DateLE(t.date, options.endDate)
                  /\ options.category # None =>
                        ToLowerCase(t.category) = ToLowerCase(options.category)
                  /\ options.type # Undefined => t.type = options.type)

\* one row of the export: its eight escaped fields
ExportRow(t) ==
    << escapeCSV(DateString(t.date)),
       escapeCSV(t.type),
       escapeCSV(Text(t.category)),
       escapeCSV(t.description),
       escapeCSV(NumberString(IF t.type = "expense" THEN -t.amount ELSE t.amount)),
       escapeCSV(IF t.currency = None THEN "USD" ELSE Text(t.currency)),
       escapeCSV(IF "tags" \in DOMAIN t THEN Join(t.tags, "; ") ELSE ""),
       escapeCSV(IF t.recurring THEN "Yes" ELSE "No") >>

ExportHeaders ==
    <<"Date", "Type", "Category", "Description", "Amount", "Currency", "Tags", "Recurring">>

ExportLines(transactions) ==
    <<Join(ExportHeaders, ",")>>
        \o [k \in DOMAIN transactions |-> Join(ExportRow(transactions[k]), ",")]

exportTransactionsToCSV(f, options) ==
    [file |-> Stored(loadData(f)),
     csv |-> Join(ExportLines(SortByDate(FilterTransactions(loadData(f).transactions,
                                                             options))), "\n"),
     saves |-> loadSaves(f)]

\* ----------------------------------------------------------------- inputs
\* 2024-04-15T10:00Z
StartHour == 24 * DaysFromCivil(2024, 4, 15) + 10
TimeZones == {"America/Bogota", "UTC"}
\* 2023-12-01T10:00Z
FirstHour == 24 * DaysFromCivil(2023, 12, 1) + 10

\* <<amount, note>> of the contribute and withdraw requests
GoalInputs == {<<-2, Undefined>>, <<0, Undefined>>, <<1, "gift">>, <<3, Undefined>>}
MissingId == 0

\* <<frequency, startDate>> of the recurring entries created
Schedules ==
    { <<"monthly", <<2024, 1, 15>>>>, <<"monthly", <<2024, 3, 1>>>>,
      <<"daily", None>>, <<"daily", <<2024, 4, 13>>>>,
      <<"weekly", <<2024, 4, 2>>>>, <<"weekly", <<2024, 4, 16>>>>,
      <<"yearly", <<2023, 4, 15>>>> }

TransactionTemplates ==
    { [amount |-> 12, type |-> "expense", category |-> "Groceries",
       description |-> "market", date |-> None, currency |-> None],
      [amount |-> -40, type |-> "income", category |-> "Gifts",
       description |-> "refund", date |-> <<2024, 4, 1>>, currency |-> EUR] }

CurrencyInputs == {USD, <<"e", "u", "r">>, <<"K", "r", "w">>, <<"X", "Y", "Z">>, <<"u", "s">>}

\* categories the budget requests name
Food == <<"F", "o", "o", "d">>
FoodLower == <<"f", "o", "o", "d">>
Rent == <<"R", "e", "n", "t">>
BudgetCategories == {Food, FoodLower, Rent}

\* <<limit, alertThreshold>> of the set-budget requests; <<>> is no alertThreshold
BudgetRequests == {<<500, None>>, <<500, <<0>>>>, <<300, <<90>>>>}

\* the ledger entries posted next to budgets
EntryTemplates ==
    { [amount |-> 510, type |-> "expense", category |-> Food, date |-> None],
      [amount |-> -400, type |-> "expense", category |-> Food, date |-> <<2024, 4, 1>>],
      [amount |-> 280, type |-> "expense", category |-> Rent, date |-> None],
      [amount |-> 700, type |-> "income", category |-> Food, date |-> None],
      [amount |-> 90, type |-> "expense", category |-> FoodLower, date |-> <<2024, 5, 1>>],
      [amount |-> 510, type |-> "expense", category |-> Food, date |-> <<2024, 3, 31>>] }

\* budgets found in the stored document when the server starts: set by
\* earlier requests, the first with a spent field written by hand
StoredBudgets ==
    { << [category |-> Food, limit |-> 500, spent |-> 99, alertThreshold |-> 80],
         [category |-> Rent, limit |-> 300, spent |-> 0, alertThreshold |-> 90] >>,
      << [category |-> Rent, limit |-> 150, spent |-> 0, alertThreshold |-> 0],
         [category |-> FoodLower, limit |-> 0, spent |-> 0, alertThreshold |-> 80] >> }

\* more categories, for ledgers of more than five
Fuel == <<"F", "u", "e", "l">>
Gym == <<"G", "y", "m">>
Pets == <<"P", "e", "t", "s">>
Toys == <<"T", "o", "y", "s">>
Plan529 == <<"5", "2", "9">>

\* the order in which a stored ledger first names its categories
CategoryOrders == { <<Food, Rent, Fuel, Gym, Pets, Toys>>,
                    <<Toys, Pets, Gym, Fuel, Rent, Food>> }

\* the amount spent on each of the six, 0 for a category the ledger leaves out
AmountRows ==
    {<<a, b, c, d, e, f>> : a \in {0, 100, 300}, b \in {0, 100, 300},
                            c \in {0, 100, 300}, d \in {0, 100},
                            e \in {0, 100}, f \in {0, 100}}

\* a ledger row as POST /api/transactions stores it
LedgerRow(amount, type, category, date) ==
    [ id |-> 0, date |-> date, amount |-> amount, category |-> category,
      description |-> "entry", type |-> type, recurring |-> FALSE,
      recurringFrequency |-> Undefined, currency |-> None ]

\* salary rows at the head of a stored ledger
LedgerHeads == { <<>>, << LedgerRow(1000, "income", Food, <<2024, 4, 15>>) >> }

\* rows at its tail: a second expense of a category, an expense of the month
\* before, one dated the first of this month, an income dated the first of
\* the next, an expense of a category named by a number
LedgerTails ==
    { <<>>,
      << LedgerRow(50, "expense", Food, <<2024, 4, 15>>) >>,
      << LedgerRow(500, "expense", Rent, <<2024, 3, 31>>) >>,
      << LedgerRow(300, "expense", Fuel, <<2024, 4, 1>>) >>,
      << LedgerRow(500, "income", Food, <<2024, 5, 1>>) >>,
      << LedgerRow(300, "expense", Plan529, <<2024, 4, 15>>) >> }

\* one expense per category spent on, the first four on Monday 2024-04-15
\* and the others on Saturday 2024-04-13
LedgerBody(order, row) ==
    SelectSeq([i \in 1..6 |->
                  LedgerRow(row[i], "expense", order[i],
                            IF i <= 4 THEN <<2024, 4, 15>> ELSE <<2024, 4, 13>>)],
              LAMBDA t : t.amount > 0)

\* the rows numbered as the ids the server gave them
Numbered(rows) == [i \in DOMAIN rows |-> [rows[i] EXCEPT !.id = i]]

StoredLedgers ==
    {Numbered(head \o LedgerBody(order, row) \o tail) :
        head \in LedgerHeads, order \in CategoryOrders, row \in AmountRows,
        tail \in LedgerTails}

\* a document as the releases before recurring entries, goals and currencies
\* wrote it
EarlierVersionDocument ==
    [ transactions |-> <<>>,
      budgets      |-> <<>>,
      accounts     |-> << [id |-> "default", name |-> "Main Account",
                           type |-> "checking", balance |-> 0, currency |-> USD] >>,
      categories   |-> DEFAULT_CATEGORIES,
      lastUpdated  |-> FirstHour ]

\* what the data file may be found to be
FilesFound ==
    {Absent, Corrupt, Unreadable, Stored(EarlierVersionDocument)}
       \cup {Stored([createEmptyFinanceData EXCEPT !.budgets = budgets,
                                                   !.transactions = ledger,
                                                   !.lastUpdated = FirstHour]) :
                budgets \in StoredBudgets,
                ledger \in {<<>>, Numbered(<< LedgerRow(50, "expense", Food,
                                                        <<2024, 4, 15>>) >>)}}

\* <<name, targetAmount, deadline>> of the goal updates; <<>> and "undefined"
\* are fields the request leaves out
GoalUpdates ==
    { <<"Car", None, None>>, <<Undefined, <<0>>, None>>,
      <<Undefined, <<9>>, <<2025, 1, 1>>>> }

\* <<amount, note>> of the contributions and withdrawals made by id
MoneyMoves == {<<3, Undefined>>, <<1, "gift">>}

\* the ids a caller may hold: every id given out so far, and one never given
HeldIds == 0..(nextId - 1)

\* the codes conversions are asked for: the supported ones, two written in
\* lower case, one that is not supported
ConvertCodes ==
    {SUPPORTED_CURRENCIES[i] : i \in DOMAIN SUPPORTED_CURRENCIES}
       \cup {<<"u", "s", "d">>, <<"e", "u", "r">>, <<"X", "Y", "Z">>}

\* amounts in thousandths: 0, 0.01, 0.5, 1, 1.005, 3.33, -2.5
ConvertAmounts == {0, 10, 500, 1000, 1005, 3330, -2500}

\* a table that lacks most codes and holds a rate of 0
SparseRates == (EUR :> 92) @@ (JPY :> 0)

\* the rates argument: left out, a full table, a sparse one
RateTables == {None, <<LiveRatesA>>, <<SparseRates>>}

\* the zones a server is run in, one of them with summer time
CalendarZones == TimeZones \cup {"Europe/Berlin"}

\* every date from 2023-12-01 on, for MaxSpan days
CalendarDates == {ISODate(FirstHour + 24 * k) : k \in 0..MaxSpan}

\* what descriptions are made of
DescriptionWords ==
    {"", "Uber", "uber eats", "WALMART", "Coffee", "taxi", "Hotel booking", "business",
     "Rent", "salary", "Gym membership", "Game Store"}

\* descriptions of one or two of these
Descriptions ==
    DescriptionWords \cup {a \o " " \o b : a \in DescriptionWords, b \in DescriptionWords}

\* deadlines of the stored goals
Deadlines == {<<2024, 6, 30>>, <<2024, 12, 31>>}

\* a stored goal with nothing paid in
StoredGoal(id, deadline, createdAt) ==
    [ id |-> id, name |-> "Trip", targetAmount |-> 5, currentAmount |-> 0,
      deadline |-> deadline, createdAt |-> createdAt, currency |-> USD,
      contributions |-> <<>> ]

\* descriptions with and without the characters that need quoting
ExportDescriptions ==
    <<"Lunch", "Rent, May", "say \"hi\"", "two\nlines", "\"", " a ,\"\n\"", "", "pay\r\nroll",
      "tab\rstop">>

\* the stored transactions an export is taken of: row k has the k-th
\* description, and the dates are not in order
ExportRows ==
    {[ id |-> k, date |-> <<2024, 4, 16 - (k % 3)>>, amount |-> 10 * k,
       category |-> IF k % 4 = 1 THEN <<"F", "o", "o", "d", ",", " ", "\"", "o", "u", "t", "\"">>
                    ELSE Food,
       description |-> ExportDescriptions[k],
       type |-> IF k % 2 = 0 THEN "income" ELSE "expense",
       recurring |-> k % 5 = 0, recurringFrequency |-> Undefined,
       currency |-> IF k % 3 = 0 THEN EUR ELSE None ] : k \in DOMAIN ExportDescriptions}

\* ledgers of up to MaxExported of these
RECURSIVE LedgersOf(_)
LedgersOf(n) ==
    IF n = 0 THEN {<<>>}
    ELSE LedgersOf(n - 1)
            \cup {Append(l, r) : l \in {x \in LedgersOf(n - 1) : Len(x) = n - 1}, r \in ExportRows}

NoFilters == [startDate |-> None, endDate |-> None, category |-> None, type |-> Undefined]

\* the query of GET /api/export/transactions
ExportOptions ==
    {NoFilters,
     [NoFilters EXCEPT !.startDate = <<2024, 4, 15>>, !.type = "expense"],
     [NoFilters EXCEPT !.endDate = <<2024, 4, 15>>, !.category = FoodLower]}

Doc == file.content[1]

\* ledger entries over all goals
RECURSIVE LedgerEntries(_)
LedgerEntries(goals) ==
    IF goals = <<>> THEN 0
    ELSE Len(goals[1].contributions) + LedgerEntries(Tail(goals))

IdsOf(arr) == {arr[i].id : i \in DOMAIN arr}

\* ---------------------------------------------------------------- actions
Tick(dt, last) ==
    /\ now + dt <= last
    /\ now' = now + dt
    /\ ret' = [op |-> "tick"]
    /\ UNCHANGED <<file, tz, nextId, pending>>

TickDay == Tick(24, StartHour + 24 * MaxDays)
TickHalfDay == Tick(12, StartHour + 12 * MaxHalfDays)

PostGoal ==
    /\ nextId <= MaxId
    /\ Len(loadData(file).savingsGoals) < MaxGoals
    /\ \E deadline \in {<<2024, 12, 31>>} :
          LET r == postGoal(file, "Trip", 5, deadline)
          IN  /\ file' = r.file
              /\ ret' = [op |-> "postGoal", saves |-> r.saves]
    /\ nextId' = nextId + 1
    /\ UNCHANGED <<now, tz, pending>>

AddContribution ==
    /\ nextId <= MaxId
    /\ \E goalId \in IdsOf(loadData(file).savingsGoals) \cup {MissingId},
          in \in GoalInputs :
          LET amount == in[1]
              note == in[2]
              r == addContribution(file, goalId, amount, note)
          IN  /\ r.success => LedgerEntries(loadData(file).savingsGoals) < MaxContributions
              /\ file' = r.file
              /\ nextId' = IF r.success THEN nextId + 1 ELSE nextId
              /\ ret' = [op |-> "addContribution", success |-> r.success,
                         error |-> r.error, saves |-> r.saves]
    /\ UNCHANGED <<now, tz, pending>>

WithdrawFromGoal ==
    /\ nextId <= MaxId
    /\ \E goalId \in IdsOf(loadData(file).savingsGoals) \cup {MissingId},
          in \in GoalInputs :
          LET amount == in[1]
              note == in[2]
              r == withdrawFromGoal(file, goalId, amount, note)
          IN  /\ r.success => LedgerEntries(loadData(file).savingsGoals) < MaxContributions
              /\ file' = r.file
              /\ nextId' = IF r.success THEN nextId + 1 ELSE nextId
              /\ ret' = [op |-> "withdrawFromGoal", goalId |-> goalId, amount |-> amount,
                         success |-> r.success, error |-> r.error, saves |-> r.saves]
    /\ UNCHANGED <<now, tz, pending>>

DeleteGoal ==
    /\ \E id \in IdsOf(loadData(file).savingsGoals) \cup {MissingId} :
          LET r == deleteGoal(file, id)
          IN  /\ file' = r.file
              /\ ret' = [op |-> "deleteGoal", success |-> r.success, saves |-> r.saves]
    /\ UNCHANGED <<now, tz, nextId, pending>>

PostRecurring ==
    /\ nextId <= MaxId
    /\ Len(loadData(file).recurringTransactions) < MaxRecurring
    /\ \E sch \in Schedules :
          LET r == postRecurring(file, -1200, "expense", "Home", "Rent", sch[1], sch[2])
          IN  /\ file' = r.file
              /\ ret' = [op |-> "postRecurring", saves |-> r.saves]
    /\ nextId' = nextId + 1
    /\ UNCHANGED <<now, tz, pending>>

ProcessRecurring ==
    LET r == processRecurringTransactions(file)
    IN  /\ Len(loadData(r.file).transactions) <= MaxTransactions
        /\ nextId + r.processed <= MaxId + 1
        /\ file' = r.file
        /\ nextId' = nextId + r.processed
        /\ ret' = [op |-> "processRecurringTransactions", processed |-> r.processed,
                   transactions |-> r.transactions, saves |-> r.saves,
                   returns |-> r.returns]
        /\ UNCHANGED <<now, tz, pending>>

ToggleRecurring ==
    /\ \E id \in IdsOf(loadData(file).recurringTransactions) \cup {MissingId},
          active \in BOOLEAN :
          LET r == toggleRecurringTransaction(file, id, active)
          IN  /\ file' = r.file
              /\ ret' = [op |-> "toggleRecurringTransaction", success |-> r.success,
                         saves |-> r.saves]
    /\ UNCHANGED <<now, tz, nextId, pending>>

\* DELETE /recurring/:id for the id of a stored entry or one that is not stored
DeleteRecurring ==
    /\ \E id \in IdsOf(loadData(file).recurringTransactions) \cup {MissingId} :
          \E r \in {deleteRecurringTransaction(file, id)} :
             /\ file' = r.file
             /\ ret' = [op |-> "deleteRecurringTransaction", success |-> r.success,
                        saves |-> r.saves]
    /\ UNCHANGED <<now, tz, nextId, pending>>

\* PATCH /recurring/:id/toggle with {active: false} for an entry that is running
PauseRecurring ==
    /\ \E i \in DOMAIN loadData(file).recurringTransactions :
          /\ loadData(file).recurringTransactions[i].active
          /\ \E r \in {toggleRecurringTransaction(file,
                          loadData(file).recurringTransactions[i].id, FALSE)} :
                /\ file' = r.file
                /\ ret' = [op |-> "toggleRecurringTransaction",
                           id |-> loadData(file).recurringTransactions[i].id,
                           active |-> FALSE, success |-> r.success, saves |-> r.saves]
    /\ UNCHANGED <<now, tz, nextId, pending>>

\* the same with {active: true} for an entry that is paused
ResumeRecurring ==
    /\ \E i \in DOMAIN loadData(file).recurringTransactions :
          /\ ~loadData(file).recurringTransactions[i].active
          /\ \E r \in {toggleRecurringTransaction(file,
                          loadData(file).recurringTransactions[i].id, TRUE)} :
                /\ file' = r.file
                /\ ret' = [op |-> "toggleRecurringTransaction",
                           id |-> loadData(file).recurringTransactions[i].id,
                           active |-> TRUE, success |-> r.success, saves |-> r.saves]
    /\ UNCHANGED <<now, tz, nextId, pending>>

PostTransaction ==
    /\ nextId <= MaxId
    /\ Len(loadData(file).transactions) < MaxPosted
    /\ \E tpl \in TransactionTemplates :
          LET r == postTransaction(file, tpl.amount, tpl.type, tpl.description,
                                   tpl.category, tpl.date, tpl.currency)
          IN  /\ file' = r.file
              /\ ret' = [op |-> "postTransaction", saves |-> r.saves]
    /\ nextId' = nextId + 1
    /\ UNCHANGED <<now, tz, pending>>

SetDefaultCurrency ==
    /\ \E currency \in CurrencyInputs :
          LET r == setDefaultCurrency(file, currency)
          IN  /\ file' = r.file
              /\ ret' = [op |-> "setDefaultCurrency", currency |-> currency,
                         success |-> r.success, saves |-> r.saves]
    /\ UNCHANGED <<now, tz, nextId, pending>>

\* GET /api/currency/rates and POST /api/currency/rates/refresh, up to the await
RatesCall ==
    /\ Len(pending) < MaxPending
    /\ LET r == updateExchangeRatesIfStale(file)
       IN  /\ file' = r.file
           /\ pending' = IF r.fetch THEN Append(pending, r.data) ELSE pending
           /\ ret' = [op |-> "updateExchangeRatesIfStale", fetch |-> r.fetch,
                      rates |-> r.rates, saves |-> r.saves]
    /\ UNCHANGED <<now, tz, nextId>>

\* the provider answers one suspended call, which then runs to its return
RatesResume ==
    /\ \E i \in DOMAIN pending, freshRates \in FetchOutcomes :
          LET r == updateExchangeRatesResume(file, pending[i], freshRates)
          IN  /\ file' = r.file
              /\ pending' = RemoveAt(pending, i)
              /\ ret' = [op |-> "updateExchangeRatesResume", fetched |-> freshRates,
                         rates |-> r.rates, saves |-> r.saves]
    /\ UNCHANGED <<now, tz, nextId>>

\* POST /api/budgets
PostBudget ==
    /\ \E category \in BudgetCategories, rq \in BudgetRequests :
          \E r \in {postBudget(file, category, rq[1], rq[2])} :
             /\ file' = r.file
             /\ ret' = [op |-> "postBudget", category |-> category, limit |-> rq[1],
                        alertThreshold |-> rq[2], budget |-> r.budget, saves |-> r.saves]
    /\ UNCHANGED <<now, tz, nextId, pending>>

\* the set_budget tool
SetBudgetTool ==
    /\ \E category \in BudgetCategories, rq \in BudgetRequests :
          \E r \in {handleSetBudget(file, category, rq[1], rq[2])} :
             /\ file' = r.file
             /\ ret' = [op |-> "handleSetBudget", category |-> category, limit |-> rq[1],
                        alertThreshold |-> rq[2], budget |-> r.budget, saves |-> r.saves]
    /\ UNCHANGED <<now, tz, nextId, pending>>

\* DELETE /api/budgets/:category
DeleteBudget ==
    /\ \E category \in BudgetCategories :
          \E r \in {deleteBudget(file, category)} :
             /\ file' = r.file
             /\ ret' = [op |-> "deleteBudget", category |-> category,
                        status |-> r.status, saves |-> r.saves]
    /\ UNCHANGED <<now, tz, nextId, pending>>

\* POST /api/transactions with a category the budgets use
PostEntry ==
    /\ nextId <= MaxId
    /\ Len(loadData(file).transactions) < MaxEntries
    /\ \E tpl \in EntryTemplates :
          \E r \in {postTransaction(file, tpl.amount, tpl.type, "entry", tpl.category,
                                    tpl.date, None)} :
             /\ file' = r.file
             /\ ret' = [op |-> "postTransaction", saves |-> r.saves]
    /\ nextId' = nextId + 1
    /\ UNCHANGED <<now, tz, pending>>

\* DELETE /api/transactions/:id
DeleteTransaction ==
    /\ \E id \in IdsOf(loadData(file).transactions) \cup {MissingId} :
          \E r \in {deleteTransaction(file, id)} :
             /\ file' = r.file
             /\ ret' = [op |-> "deleteTransaction", id |-> id, status |-> r.status,
                        saves |-> r.saves]
    /\ UNCHANGED <<now, tz, nextId, pending>>

\* GET /api/budgets
GetBudgets ==
    /\ \E r \in {getBudgets(file)} :
          /\ file' = r.file
          /\ ret' = [op |-> "getBudgets", budgets |-> r.budgets, saves |-> r.saves]
    /\ UNCHANGED <<now, tz, nextId, pending>>

\* GET /api/analytics/alerts
GetAlerts ==
    /\ \E r \in {getAlerts(file)} :
          /\ file' = r.file
          /\ ret' = [op |-> "getAlerts", alerts |-> r.alerts, saves |-> r.saves]
    /\ UNCHANGED <<now, tz, nextId, pending>>

\* GET /api/analytics/spending
GetSpending ==
    /\ \E r \in {getSpending(file)} :
          /\ file' = r.file
          /\ ret' = [op |-> "getSpending", analysis |-> r.analysis, saves |-> r.saves]
    /\ UNCHANGED <<now, tz, nextId, pending>>

\* GET /api/analytics/insights
GetInsights ==
    /\ \E r \in {getInsights(file)} :
          /\ file' = r.file
          /\ ret' = [op |-> "getInsights", insights |-> r.insights, saves |-> r.saves]
    /\ UNCHANGED <<now, tz, nextId, pending>>

\* the data file is removed, damaged, locked or put back between two requests
FileReplaced ==
    /\ \E f \in FilesFound : file' = f
    /\ ret' = [op |-> "file replaced"]
    /\ UNCHANGED <<now, tz, nextId, pending>>

\* a request handler's call of loadData()
LoadData ==
    /\ \E r \in {loadCall(file)} :
          /\ file' = r.file
          /\ ret' = [op |-> "loadData", threw |-> r.threw, data |-> r.data,
                     saves |-> r.saves]
    /\ UNCHANGED <<now, tz, nextId, pending>>

\* the engine operations addressed by id, called with any id a caller holds
AddContributionById ==
    /\ nextId <= MaxId
    /\ \E id \in HeldIds, in \in MoneyMoves :
          \E r \in {addContribution(file, id, in[1], in[2])} :
             /\ r.success => LedgerEntries(loadData(file).savingsGoals) < MaxContributions
             /\ file' = r.file
             /\ nextId' = IF r.success THEN nextId + 1 ELSE nextId
             /\ ret' = [op |-> "addContribution", kind |-> "goal", id |-> id,
                        success |-> r.success, saves |-> r.saves]
    /\ UNCHANGED <<now, tz, pending>>

WithdrawFromGoalById ==
    /\ nextId <= MaxId
    /\ \E id \in HeldIds, in \in MoneyMoves :
          \E r \in {withdrawFromGoal(file, id, in[1], in[2])} :
             /\ r.success => LedgerEntries(loadData(file).savingsGoals) < MaxContributions
             /\ file' = r.file
             /\ nextId' = IF r.success THEN nextId + 1 ELSE nextId
             /\ ret' = [op |-> "withdrawFromGoal", kind |-> "goal", id |-> id,
                        success |-> r.success, saves |-> r.saves]
    /\ UNCHANGED <<now, tz, pending>>

UpdateGoalById ==
    /\ \E id \in HeldIds, u \in GoalUpdates :
          \E r \in {updateGoal(file, id, u[1], u[2], u[3])} :
             /\ file' = r.file
             /\ ret' = [op |-> "updateGoal", kind |-> "goal", id |-> id,
                        success |-> r.success, saves |-> r.saves]
    /\ UNCHANGED <<now, tz, nextId, pending>>

DeleteGoalById ==
    /\ \E id \in HeldIds :
          \E r \in {deleteGoal(file, id)} :
             /\ file' = r.file
             /\ ret' = [op |-> "deleteGoal", kind |-> "goal", id |-> id,
                        success |-> r.success, saves |-> r.saves]
    /\ UNCHANGED <<now, tz, nextId, pending>>

ToggleRecurringById ==
    /\ \E id \in HeldIds, active \in BOOLEAN :
          \E r \in {toggleRecurringTransaction(file, id, active)} :
             /\ file' = r.file
             /\ ret' = [op |-> "toggleRecurringTransaction", kind |-> "recurring",
                        id |-> id, success |-> r.success, saves |-> r.saves]
    /\ UNCHANGED <<now, tz, nextId, pending>>

DeleteRecurringById ==
    /\ \E id \in HeldIds :
          \E r \in {deleteRecurringTransaction(file, id)} :
             /\ file' = r.file
             /\ ret' = [op |-> "deleteRecurringTransaction", kind |-> "recurring",
                        id |-> id, success |-> r.success, saves |-> r.saves]
    /\ UNCHANGED <<now, tz, nextId, pending>>

\* the call of convertCurrency that was asked for
Convert ==
    /\ ret.op = "convert"
    /\ ret' = [op |-> "convertCurrency", amount |-> ret.amount, from |-> ret.from,
               to |-> ret.to, rates |-> ret.rates, of |-> None,
               result |-> convertCurrency(ret.amount, ret.from, ret.to, ret.rates)]
    /\ UNCHANGED <<file, now, tz, nextId, pending>>

\* the amount a call returned, converted back with the same table
ConvertBack ==
    /\ ret.op = "convertCurrency"
    /\ ret.of = None
    /\ ret' = [op |-> "convertCurrency", amount |-> ret.result.convertedAmount,
               from |-> ret.to, to |-> ret.from, rates |-> ret.rates,
               of |-> <<ret.amount>>,
               result |-> convertCurrency(ret.result.convertedAmount, ret.to, ret.from,
                                          ret.rates)]
    /\ UNCHANGED <<file, now, tz, nextId, pending>>

\* the call of calculateNextDueDate that was asked for
CalculateNextDueDate ==
    /\ ret.op = "dueDate"
    /\ ret' = [op |-> "calculateNextDueDate", currentDate |-> ret.currentDate,
               frequency |-> ret.frequency,
               result |-> calculateNextDueDate(ret.currentDate, ret.frequency)]
    /\ UNCHANGED <<file, now, tz, nextId, pending>>

\* suggestCategory(description), for a description asked about or once more
\* for the description of the last call
SuggestCategory ==
    /\ \/ ret.op = "describe"
       \/ ret.op = "suggestCategory" /\ ret.before = None
    /\ ret' = [op |-> "suggestCategory", description |-> ret.description,
               before |-> IF ret.op = "describe" THEN None ELSE <<ret.result>>,
               result |-> suggestCategory(ret.description)]
    /\ UNCHANGED <<file, now, tz, nextId, pending>>

\* getGoalsWithProgress(loadData()), as GET /api/goals calls it
GetGoalsWithProgress ==
    /\ ret' = [op |-> "getGoalsWithProgress",
               goals |-> getGoalsWithProgress(loadData(file)),
               saves |-> loadSaves(file)]
    /\ file' = Stored(loadData(file))
    /\ UNCHANGED <<now, tz, nextId, pending>>

\* GET /api/export/transactions
ExportTransactions ==
    /\ \E options \in ExportOptions :
          \E r \in {exportTransactionsToCSV(file, options)} :
             /\ file' = r.file
             /\ ret' = [op |-> "exportTransactionsToCSV", options |-> options,
                        csv |-> r.csv, saves |-> r.saves]
    /\ UNCHANGED <<now, tz, nextId, pending>>

\* The date n calendar months before date d (same day of month).
MonthsBefore(d, n) ==
    LET k == d[1] * 12 + (d[2] - 1) - n
    IN  <<k \div 12, (k % 12) + 1, d[3]>>

\* <<y, m, d>> names a day of the calendar
ValidDate(d) == CivilFromDays(DaysFromCivil(d[1], d[2], d[3])) = d

\* POST /api/recurring of a monthly entry that started three months ago
PostQuarterOld ==
    /\ loadData(file).recurringTransactions = <<>>
    /\ ValidDate(MonthsBefore(today, 3))
    /\ LET r == postRecurring(file, -1200, "expense", "Home", "Rent", "monthly",
                              MonthsBefore(today, 3))
       IN  /\ file' = r.file
           /\ ret' = [op |-> "postRecurring", saves |-> r.saves]
    /\ nextId' = nextId + 1
    /\ UNCHANGED <<now, tz, pending>>

\* days before today on which the overdue schedules started
DaysBack == {0, 1, 3}

\* POST /recurring of a schedule of any frequency that started a few days ago
PostOverdue ==
    /\ Len(loadData(file).recurringTransactions) < MaxRecurring
    /\ nextId <= MaxId
    /\ \E frequency \in Frequencies, k \in DaysBack :
          \E r \in {postRecurring(file, -1200, "expense", "Home", "Rent", frequency,
                                  ISODate(now - 24 * k))} :
              /\ file' = r.file
              /\ ret' = [op |-> "postRecurring", saves |-> r.saves]
    /\ nextId' = nextId + 1
    /\ UNCHANGED <<now, tz, pending>>

\* --------------------------------------------------------- specifications
\* The server starts on an existing default document.
Init ==
    /\ now = StartHour
    /\ tz = "UTC"
    /\ file = Stored(createEmptyFinanceData)
    /\ nextId = 1
    /\ pending = <<>>
    /\ ret = [op |-> "start"]

\* the same, in any of the time zones
InitZones ==
    /\ now = StartHour
    /\ tz \in TimeZones
    /\ file = Stored(createEmptyFinanceData)
    /\ nextId = 1
    /\ pending = <<>>
    /\ ret = [op |-> "start"]

\* the same, the server starting on any day of a span and in any time zone
InitDays ==
    /\ \E k \in 0..MaxSpan : now = FirstHour + 24 * k
    /\ tz \in TimeZones
    /\ file = Stored(createEmptyFinanceData)
    /\ nextId = 1
    /\ pending = <<>>
    /\ ret = [op |-> "start"]

\* the server starts, in any of the time zones, on a document with budgets
InitBudgeted ==
    /\ now = StartHour
    /\ tz \in TimeZones
    /\ \E budgets \in StoredBudgets :
          file = Stored([createEmptyFinanceData EXCEPT !.budgets = budgets])
    /\ nextId = 1
    /\ pending = <<>>
    /\ ret = [op |-> "start"]

\* the server starting on any day of the span, in a zone with or without summer time
InitSeasons ==
    /\ \E k \in 0..MaxSpan : now = FirstHour + 24 * k
    /\ tz \in CalendarZones
    /\ file = Stored(createEmptyFinanceData)
    /\ nextId = 1
    /\ pending = <<>>
    /\ ret = [op |-> "start"]

\* schedules a few days overdue when they are processed, in every zone
NextOverdue == PostOverdue \/ ProcessRecurring
SpecOverdue == InitSeasons /\ [][NextOverdue]_vars

\* recurring entries created, processed, paused, resumed and deleted over some days
NextCursor == PostRecurring \/ ProcessRecurring \/ ToggleRecurring \/ DeleteRecurring \/ TickDay
SpecCursor == InitZones /\ [][NextCursor]_vars

\* recurring entries paused and resumed while the days pass
NextPause == PostRecurring \/ ProcessRecurring \/ PauseRecurring \/ ResumeRecurring \/ TickDay
SpecPause == InitZones /\ [][NextPause]_vars

\* savings goals
NextGoals == PostGoal \/ AddContribution \/ WithdrawFromGoal \/ DeleteGoal
SpecGoals == Init /\ [][NextGoals]_vars

\* recurring transactions, the clock moving in days
NextRecurring == PostRecurring \/ ProcessRecurring \/ ToggleRecurring \/ TickDay
SpecRecurring == InitZones /\ [][NextRecurring]_vars

\* one monthly entry, three months overdue when it is first processed
NextQuarter == PostQuarterOld \/ ProcessRecurring
SpecQuarter == InitDays /\ [][NextQuarter]_vars

\* the exchange-rate cache next to a synchronous writer, the clock moving in half days
NextRates == RatesCall \/ RatesResume \/ PostTransaction \/ TickHalfDay
SpecRates == Init /\ [][NextRates]_vars

\* the default currency
NextSettings == SetDefaultCurrency \/ PostGoal \/ TickHalfDay
SpecSettings == Init /\ [][NextSettings]_vars

\* setting and deleting budgets, through the REST API and the tool
NextBudgetSet == PostBudget \/ SetBudgetTool \/ DeleteBudget
SpecBudgetSet == Init /\ [][NextBudgetSet]_vars

\* budgets read against a changing ledger
NextBudgetStatus == PostEntry \/ DeleteTransaction \/ GetBudgets \/ GetAlerts
SpecBudgetStatus == InitBudgeted /\ [][NextBudgetStatus]_vars

\* the server started on a document that holds a ledger and budgets
InitLedger ==
    /\ now = StartHour
    /\ tz \in TimeZones
    /\ \E budgets \in StoredBudgets, ledger \in StoredLedgers :
          /\ file = Stored([createEmptyFinanceData EXCEPT !.budgets = budgets,
                                                          !.transactions = ledger])
          /\ nextId = Len(ledger) + 1
    /\ pending = <<>>
    /\ ret = [op |-> "start"]

\* the analytics reads
NextAnalytics == GetSpending \/ GetInsights
SpecAnalytics == InitLedger /\ [][NextAnalytics]_vars

\* the server starts on whatever the data file is
InitFile ==
    /\ now = StartHour
    /\ tz \in TimeZones
    /\ file \in FilesFound
    /\ nextId = 1
    /\ pending = <<>>
    /\ ret = [op |-> "start"]

\* loading the document
NextStorage == LoadData \/ FileReplaced \/ TickDay
SpecStorage == InitFile /\ [][NextStorage]_vars

\* the server started on a document that holds a goal and a recurring
\* entry, created on 2023-12-01 by POST /api/goals and POST /api/recurring
InitEngine ==
    /\ now = StartHour
    /\ tz = "UTC"
    /\ file = Stored([createEmptyFinanceData EXCEPT
                        !.savingsGoals =
                           << [ id |-> 1, name |-> "Trip", targetAmount |-> 5,
                                currentAmount |-> 0, deadline |-> <<2024, 12, 31>>,
                                createdAt |-> FirstHour, currency |-> USD,
                                contributions |-> <<>> ] >>,
                        !.recurringTransactions =
                           << [ id |-> 2, amount |-> 1200, type |-> "expense",
                                category |-> "Home", description |-> "Rent",
                                frequency |-> "monthly", startDate |-> <<2024, 5, 1>>,
                                nextDue |-> <<2024, 5, 1>>, lastProcessed |-> None,
                                active |-> TRUE, currency |-> None ] >>,
                        !.lastUpdated = FirstHour])
    /\ nextId = 3
    /\ pending = <<>>
    /\ ret = [op |-> "start"]

\* the engine operations addressed by id
NextEngine == AddContributionById \/ WithdrawFromGoalById \/ UpdateGoalById \/ DeleteGoalById \/ ToggleRecurringById \/ DeleteRecurringById
SpecEngine == InitEngine /\ [][NextEngine]_vars

\* the server started on a document that holds a transaction, a goal, a
\* budget and a monthly entry whose March and April occurrences are due
InitFrame ==
    /\ now = StartHour
    /\ tz = "UTC"
    /\ file = Stored([createEmptyFinanceData EXCEPT
                        !.savingsGoals =
                           << [ id |-> 1, name |-> "Trip", targetAmount |-> 5,
                                currentAmount |-> 0, deadline |-> <<2024, 12, 31>>,
                                createdAt |-> FirstHour, currency |-> USD,
                                contributions |-> <<>> ] >>,
                        !.recurringTransactions =
                           << [ id |-> 2, amount |-> 1200, type |-> "expense",
                                category |-> "Home", description |-> "Rent",
                                frequency |-> "monthly", startDate |-> <<2024, 3, 15>>,
                                nextDue |-> <<2024, 3, 15>>, lastProcessed |-> None,
                                active |-> TRUE, currency |-> None ] >>,
                        !.budgets =
                           << [category |-> Food, limit |-> 500, spent |-> 0,
                               alertThreshold |-> 80] >>,
                        !.transactions =
                           << [ id |-> 3, date |-> <<2024, 4, 1>>, amount |-> 40,
                                category |-> "Gifts", description |-> "refund",
                                type |-> "income", recurring |-> FALSE,
                                recurringFrequency |-> Undefined, currency |-> EUR] >>,
                        !.lastUpdated = FirstHour])
    /\ nextId = 4
    /\ pending = <<>>
    /\ ret = [op |-> "start"]

\* every kind of write next to the ledger
NextFrame == DeleteTransaction \/ ProcessRecurring \/ DeleteGoalById \/ DeleteBudget \/ SetDefaultCurrency \/ RatesCall \/ RatesResume
SpecFrame == InitFrame /\ [][NextFrame]_vars

\* a conversion is asked for: an amount, two codes, a rate table or none
InitConvert ==
    /\ now = StartHour
    /\ tz = "UTC"
    /\ file = Stored(createEmptyFinanceData)
    /\ nextId = 1
    /\ pending = <<>>
    /\ \E amount \in ConvertAmounts, from \in ConvertCodes, to \in ConvertCodes,
          rates \in RateTables :
          ret = [op |-> "convert", amount |-> amount, from |-> from, to |-> to,
                 rates |-> rates]

\* conversions
NextConvert == Convert \/ ConvertBack
SpecConvert == InitConvert /\ [][NextConvert]_vars

\* a next due date is asked for: a date, a frequency, in some zone
InitCalendar ==
    /\ now = StartHour
    /\ tz \in CalendarZones
    /\ file = Stored(createEmptyFinanceData)
    /\ nextId = 1
    /\ pending = <<>>
    /\ \E currentDate \in CalendarDates, frequency \in Frequencies :
          ret = [op |-> "dueDate", currentDate |-> currentDate, frequency |-> frequency]

\* next due dates
NextCalendar == CalculateNextDueDate
SpecCalendar == InitCalendar /\ [][NextCalendar]_vars

\* a category is asked for: a description
InitDescribed ==
    /\ now = StartHour
    /\ tz = "UTC"
    /\ file = Stored(createEmptyFinanceData)
    /\ nextId = 1
    /\ pending = <<>>
    /\ \E description \in Descriptions : ret = [op |-> "describe", description |-> description]

\* suggestions
NextSuggest == SuggestCategory
SpecSuggest == InitDescribed /\ [][NextSuggest]_vars

\* a stored document with a goal that has no deadline and one that has
InitProgress ==
    /\ now = StartHour
    /\ tz \in TimeZones
    /\ \E deadline \in Deadlines, createdAt \in {FirstHour, StartHour} :
          file = Stored([createEmptyFinanceData EXCEPT
                           !.savingsGoals = << StoredGoal(1, None, createdAt),
                                               StoredGoal(2, deadline, createdAt) >>,
                           !.lastUpdated = createdAt])
    /\ nextId = 3
    /\ pending = <<>>
    /\ ret = [op |-> "start"]

\* paying in, taking out and reading the progress
NextProgress == AddContribution \/ WithdrawFromGoal \/ GetGoalsWithProgress
SpecProgress == InitProgress /\ [][NextProgress]_vars

\* a stored ledger to export
InitExport ==
    /\ now = StartHour
    /\ tz = "UTC"
    /\ \E ledger \in LedgersOf(MaxExported) :
          file = Stored([createEmptyFinanceData EXCEPT !.transactions = ledger,
                                                       !.lastUpdated = FirstHour])
    /\ nextId = 10
    /\ pending = <<>>
    /\ ret = [op |-> "start"]

\* exports
NextExport == ExportTransactions
SpecExport == InitExport /\ [][NextExport]_vars

\* ============================================================ properties
\* the step just taken is a call of op
Called(op) == ret'.op = op /\ vars' # vars

\* sum of a sequence of numbers
RECURSIVE SumSeq(_)
SumSeq(s) == IF s = <<>> THEN 0 ELSE SumSeq(SubSeq(s, 1, Len(s) - 1)) + s[Len(s)]

LedgerAmounts(goal) == [j \in DOMAIN goal.contributions |-> goal.contributions[j].amount]

\* C1: for every savings goal, whatever contributions and withdrawals were
\* attempted, currentAmount is the sum of the signed amounts in its ledger.
C1_CurrentAmountIsLedgerSum ==
    \A i \in DOMAIN Doc.savingsGoals :
        Doc.savingsGoals[i].currentAmount = SumSeq(LedgerAmounts(Doc.savingsGoals[i]))

\* a goal holding a deposit and a withdrawal, right after a refused withdrawal
C1_Witness ==
    /\ ret.op = "withdrawFromGoal" /\ ~ret.success
    /\ \E i \in DOMAIN Doc.savingsGoals :
          /\ LedgerAmounts(Doc.savingsGoals[i]) = <<3, -1>>
          /\ Doc.savingsGoals[i].currentAmount = 2

\* C2: a withdrawal of more than the balance of an existing goal is refused
\* with the insufficient-funds failure, appends nothing, leaves currentAmount
\* as it was and does not write the document.
C2_OverdraftRefused ==
    [][ (/\ Called("withdrawFromGoal")
         /\ \E i \in DOMAIN Doc.savingsGoals :
               /\ Doc.savingsGoals[i].id = ret'.goalId
               /\ ret'.amount > Doc.savingsGoals[i].currentAmount)
        => /\ ~ret'.success
           /\ ret'.error = "Insufficient funds in goal"
           /\ ret'.saves = 0
           /\ file' = file ]_vars

\* an overdraft was refused on a goal that has a ledger and a positive balance
C2_Witness ==
    /\ ret.op = "withdrawFromGoal" /\ ~ret.success
    /\ ret.error = "Insufficient funds in goal"
    /\ \E i \in DOMAIN Doc.savingsGoals :
          /\ Doc.savingsGoals[i].id = ret.goalId
          /\ Doc.savingsGoals[i].currentAmount = 1
          /\ ret.amount = 3
          /\ Len(Doc.savingsGoals[i].contributions) = 1

\* the transactions a step appended to the ledger
Made == SubSeq(Doc'.transactions, Len(Doc.transactions) + 1, Len(Doc'.transactions))

\* the scheduled dates d, next(d), next(next(d)), ... up to day
RECURSIVE DueDates(_, _, _)
DueDates(d, frequency, day) ==
    IF DateLE(d, day)
    THEN <<d>> \o DueDates(calculateNextDueDate(d, frequency), frequency, day)
    ELSE <<>>

\* those dates for the active entries of a list, in list order
RECURSIVE ExpectedDates(_, _)
ExpectedDates(list, day) ==
    IF list = <<>> THEN <<>>
    ELSE (IF list[1].active
          THEN DueDates(list[1].nextDue, list[1].frequency, day)
          ELSE <<>>) \o ExpectedDates(Tail(list), day)

\* C3: a processing pass leaves every active entry with nextDue after today,
\* appends exactly one transaction per scheduled date up to today of each
\* active entry, dated with it, and returns their count.
C3_PassCatchesUp ==
    [][ Called("processRecurringTransactions")
        => /\ SubSeq(Doc'.transactions, 1, Len(Doc.transactions)) = Doc.transactions
           /\ \A i \in DOMAIN Doc'.recurringTransactions :
                 Doc'.recurringTransactions[i].active
                    => DateLT(today, Doc'.recurringTransactions[i].nextDue)
           /\ [k \in DOMAIN Made |-> Made[k].date]
                 = ExpectedDates(Doc.recurringTransactions, today)
           /\ ret'.processed = Len(Made)
           /\ ret'.transactions = Made ]_vars

\* a pass that materialized several overdue occurrences at once
C3_Witness ==
    /\ ret.op = "processRecurringTransactions"
    /\ ret.processed >= 3
    /\ \E i \in DOMAIN Doc.recurringTransactions :
          /\ Doc.recurringTransactions[i].active
          /\ Doc.recurringTransactions[i].frequency = "daily"
          /\ Doc.recurringTransactions[i].lastProcessed = today

\* C5: a pass leaves a paused entry as it is and materializes nothing for
\* it, however overdue; a toggle changes nothing but the active flag.
C5_PausedSkipped ==
    [][ /\ Called("processRecurringTransactions")
           => /\ \A i \in DOMAIN Doc.recurringTransactions :
                    ~Doc.recurringTransactions[i].active
                       => Doc'.recurringTransactions[i] = Doc.recurringTransactions[i]
              /\ Len(Made) = Len(ExpectedDates(Doc.recurringTransactions, today))
              /\ (\A i \in DOMAIN Doc.recurringTransactions :
                     ~Doc.recurringTransactions[i].active)
                    => ret'.processed = 0 /\ file' = file
        /\ (Called("toggleRecurringTransaction") /\ ret'.success)
           => \E i \in DOMAIN Doc.recurringTransactions, active \in BOOLEAN :
                 Doc' = [Doc EXCEPT !.recurringTransactions[i].active = active,
                                    !.lastUpdated = now] ]_vars

\* a pass ran over a paused entry whose nextDue lies in the past
C5_Witness ==
    /\ ret.op = "processRecurringTransactions"
    /\ ret.processed = 0
    /\ \E i \in DOMAIN Doc.recurringTransactions :
          /\ ~Doc.recurringTransactions[i].active
          /\ DateLT(Doc.recurringTransactions[i].nextDue, today)

\* C6: a pass writes the document once if it materialized anything and not
\* at all otherwise; with nothing due the stored document stays as it was
\* and the pass returns 0 and an empty list.
C6_SavesOnlyWhenMaterialized ==
    [][ Called("processRecurringTransactions")
        => /\ ret'.saves = (IF ret'.processed > 0 THEN 1 ELSE 0)
           /\ ret'.processed > 0 => Doc'.lastUpdated = now
           /\ ret'.processed = 0 => file' = file /\ ret'.transactions = <<>> ]_vars

\* a pass found nothing due on an active entry, a day after the last write
C6_Witness ==
    /\ ret.op = "processRecurringTransactions"
    /\ ret.processed = 0 /\ ret.saves = 0
    /\ Doc.lastUpdated < now
    /\ \E i \in DOMAIN Doc.recurringTransactions :
          /\ Doc.recurringTransactions[i].active
          /\ Doc.recurringTransactions[i].lastProcessed # None

\* the document's only entry is active, monthly, never processed and started
\* (nextDue = startDate) three calendar months before today
QuarterOverdue ==
    /\ Len(Doc.recurringTransactions) = 1
    /\ LET r == Doc.recurringTransactions[1]
       IN  /\ r.active /\ r.frequency = "monthly" /\ r.lastProcessed = None
           /\ r.nextDue = r.startDate
           /\ r.startDate = MonthsBefore(today, 3)

\* C4 as stated: such a pass materializes exactly 3 transactions and leaves
\* nextDue after today.
C4_ThreeMaterialized ==
    [][ (QuarterOverdue /\ Called("processRecurringTransactions"))
        => /\ ret'.processed = 3
           /\ DateLT(today, Doc'.recurringTransactions[1].nextDue) ]_vars

\* C4, amended: when the start day of month is 2..28, such a pass
\* materializes exactly 4 transactions, the first dated with the start date
\* and the last dated no later than today, and leaves nextDue after today.
C4_FourMaterialized ==
    [][ (QuarterOverdue /\ Called("processRecurringTransactions")
         /\ today[3] >= 2 /\ today[3] <= 28)
        => /\ ret'.processed = 4
           /\ Len(Made) = 4
           /\ Made[1].date = MonthsBefore(today, 3)
           /\ DateLE(Made[4].date, today)
           /\ DateLT(today, Doc'.recurringTransactions[1].nextDue) ]_vars

\* the pass has run on an entry that started three months before today
C4_Witness ==
    /\ ret.op = "processRecurringTransactions"
    /\ ret.processed = 4
    /\ Len(Doc.recurringTransactions) = 1
    /\ Doc.recurringTransactions[1].frequency = "monthly"
    /\ Doc.recurringTransactions[1].startDate = MonthsBefore(today, 3)
    /\ Doc.recurringTransactions[1].lastProcessed = today
    /\ Doc.transactions[1].date = Doc.recurringTransactions[1].startDate

\* --------------------------------------------------------- exchange rates
\* the document holds rates cached less than 24 hours ago
CachedAndFresh ==
    /\ Doc.exchangeRates # None
    /\ now - Doc.exchangeRates[1].lastUpdated < 24

\* the suspended call that the step just taken resumed
Resumed(i) == i \in DOMAIN pending /\ pending' = RemoveAt(pending, i)

\* C7: with rates cached less than 24 hours ago updateExchangeRatesIfStale
\* returns them, asks the provider nothing and leaves the document alone;
\* with no cache, or one 24 hours old or older, it asks the provider; when
\* the provider answers, the call stores the answer stamped with the
\* current instant and returns it; and a stored stamp never moves back, so
\* the cache stays fresh for the 24 hours after it.
C7_CacheFreshness ==
    [][ /\ (Called("updateExchangeRatesIfStale") /\ CachedAndFresh)
            => /\ ~ret'.fetch
               /\ ret'.rates = Doc.exchangeRates[1].rates
               /\ ret'.saves = 0
               /\ file' = file
               /\ pending' = pending
        /\ (Called("updateExchangeRatesIfStale") /\ ~CachedAndFresh)
            => /\ ret'.fetch
               /\ pending' = Append(pending, Doc)
        /\ (Called("updateExchangeRatesResume") /\ ret'.fetched # None)
            => /\ Doc'.exchangeRates =
                      << [rates |-> ret'.fetched[1], lastUpdated |-> now] >>
               /\ ret'.rates = ret'.fetched[1]
               /\ ret'.saves = 1
        /\ Doc.exchangeRates # None
            => /\ Doc'.exchangeRates # None
               /\ Doc'.exchangeRates[1].lastUpdated >= Doc.exchangeRates[1].lastUpdated
               /\ Doc.exchangeRates[1].lastUpdated <= now
      ]_vars

\* a call answered from rates stored 12 hours before
C7_Witness ==
    /\ ret.op = "updateExchangeRatesIfStale"
    /\ ~ret.fetch
    /\ Doc.exchangeRates # None
    /\ now - Doc.exchangeRates[1].lastUpdated = 12
    /\ ret.rates = Doc.exchangeRates[1].rates
    /\ pending = <<>>

\* C8: when the provider fails, the call returns the rates cached in the
\* document it loaded, or the default table if that document had none, and
\* writes nothing: the document, its cached rates and their stamp stay as
\* they were, so the cache is still stale or absent for the next call.
C8_FetchFailureFallsBack ==
    [][ (Called("updateExchangeRatesResume") /\ ret'.fetched = None)
        => /\ file' = file
           /\ ret'.saves = 0
           /\ \E i \in DOMAIN pending :
                 /\ Resumed(i)
                 /\ ret'.rates = IF pending[i].exchangeRates # None
                                  THEN pending[i].exchangeRates[1].rates
                                  ELSE DEFAULT_EXCHANGE_RATES
           /\ DOMAIN ret'.rates = DOMAIN DEFAULT_EXCHANGE_RATES
      ]_vars

\* a failed fetch answered from a cache that is 24 hours old or older
C8_Witness ==
    /\ ret.op = "updateExchangeRatesResume"
    /\ ret.fetched = None
    /\ Doc.exchangeRates # None
    /\ now - Doc.exchangeRates[1].lastUpdated >= 24
    /\ ret.rates = Doc.exchangeRates[1].rates
    /\ ret.rates # DEFAULT_EXCHANGE_RATES

\* C9: a call that stores fetched rates writes back the whole document it
\* loaded before it suspended, whatever the file holds by then: what other
\* requests stored in between is overwritten, and nothing compares the
\* file with the document loaded.
C9_LateSaveOverwrites ==
    [][ (Called("updateExchangeRatesResume") /\ ret'.saves = 1)
        => \E i \in DOMAIN pending :
              /\ Resumed(i)
              /\ Doc' = [pending[i] EXCEPT !.exchangeRates = Doc'.exchangeRates,
                                            !.lastUpdated = Doc'.lastUpdated]
      ]_vars

\* a transaction was posted and stored while a rates call was suspended,
\* and the document stored by that call no longer holds it
C9_Witness ==
    /\ ret.op = "updateExchangeRatesResume"
    /\ ret.saves = 1
    /\ nextId > 1
    /\ Doc.transactions = <<>>
    /\ Doc.exchangeRates # None

\* ------------------------------------------------------- default currency
\* the 12 supported codes
SupportedCodes ==
    { <<"U","S","D">>, <<"E","U","R">>, <<"G","B","P">>, <<"I","N","R">>,
      <<"J","P","Y">>, <<"C","A","D">>, <<"A","U","D">>, <<"C","H","F">>,
      <<"C","N","Y">>, <<"K","R","W">>, <<"B","R","L">>, <<"M","X","N">> }

\* the code in upper case, for the codes the calls are made with
UpperOf(c) ==
    CASE c = <<"e","u","r">> -> <<"E","U","R">>
      [] c = <<"K","r","w">> -> <<"K","R","W">>
      [] c = <<"u","s">>     -> <<"U","S">>
      [] OTHER               -> c

\* C10: setDefaultCurrency(c) with c in upper case not among the 12
\* supported codes returns false, leaves the document as it is and does
\* not save; otherwise it stores the upper-cased code, changing nothing
\* else but lastUpdated, saves once and returns true; so defaultCurrency
\* is always one of the 12 codes.
C10_DefaultCurrencySupported ==
    [][ /\ Cardinality(SupportedCodes) = 12
        /\ Doc.defaultCurrency \in SupportedCodes
        /\ Doc'.defaultCurrency \in SupportedCodes
        /\ (ret'.op = "setDefaultCurrency" /\ UpperOf(ret'.currency) \notin SupportedCodes)
            => /\ ~ret'.success
               /\ ret'.saves = 0
               /\ file' = file
        /\ (ret'.op = "setDefaultCurrency" /\ UpperOf(ret'.currency) \in SupportedCodes)
            => /\ ret'.success
               /\ ret'.saves = 1
               /\ Doc' = [Doc EXCEPT !.defaultCurrency = UpperOf(ret'.currency),
                                      !.lastUpdated = Doc'.lastUpdated]
      ]_vars

\* an unsupported code was refused after a lower-case code had been stored
C10_Witness ==
    /\ ret.op = "setDefaultCurrency"
    /\ ret.currency = <<"X","Y","Z">>
    /\ ~ret.success
    /\ Doc.defaultCurrency = <<"K","R","W">>

\* ----------------------------------------------------------------- budgets
\* a category with its case folded, for the categories the requests name
Folded(c) == IF c = <<"F", "o", "o", "d">> THEN <<"f", "o", "o", "d">> ELSE c

\* the alertThreshold a set-budget request stores
StoredThreshold(op, requested) ==
    IF requested = <<>> THEN 80
    ELSE IF op = "handleSetBudget" /\ requested = <<0>> THEN 80
    ELSE requested[1]

\* the step just taken set a budget, through either adapter
SetBudgetCalled == ret'.op \in {"postBudget", "handleSetBudget"}

InCurrentMonth(t) ==
    /\ LocalFields(ParseDate(t.date))[1] = LocalFields(now)[1]
    /\ LocalFields(ParseDate(t.date))[2] = LocalFields(now)[2]

\* the amounts of the current-month expenses of a category, in ledger order
MonthExpenses(category) ==
    LET picked == SelectSeq(Doc.transactions,
                            LAMBDA t : /\ t.type = "expense"
                                       /\ t.category = category
                                       /\ InCurrentMonth(t))
    IN  [k \in DOMAIN picked |-> picked[k].amount]

MonthSpend(category) == SumSeq(MonthExpenses(category))

\* spent / limit * 100 >= p for a limit above 0; with limit 0 the quotient
\* is Infinity for a positive spend and NaN, which is >= nothing, for none
ReachesPercent(spent, limit, p) ==
    IF limit = 0 THEN spent > 0 ELSE spent * 100 >= p * limit

\* the insights the claim asks for, budget by budget
RECURSIVE ExpectedAlerts(_)
ExpectedAlerts(budgets) ==
    IF budgets = <<>> THEN <<>>
    ELSE LET b     == budgets[1]
             spent == MonthSpend(b.category)
         IN  (IF ReachesPercent(spent, b.limit, 100)
              THEN << [type |-> "warning", message |-> "Budget EXCEEDED",
                       category |-> b.category, amount |-> spent - b.limit,
                       amounts |-> <<spent, b.limit>>] >>
              ELSE IF ReachesPercent(spent, b.limit, b.alertThreshold)
              THEN << [type |-> "warning", message |-> "budget at percent",
                       category |-> b.category, amount |-> b.limit - spent,
                       amounts |-> <<spent, b.limit>>] >>
              ELSE <<>>) \o ExpectedAlerts(Tail(budgets))

MonthRows(type) ==
    SelectSeq(Doc.transactions, LAMBDA t : t.type = type /\ InCurrentMonth(t))

MonthTotal(type) == SumSeq([k \in DOMAIN MonthRows(type) |-> MonthRows(type)[k].amount])

\* the messages of the savings-rate insights
SavingsMessages == {"spending more than you earn", "Aim for at least 20%", "Great job"}

\* where the savings-rate insights stand in an answer
SavingsAt(insights) == {k \in DOMAIN insights : insights[k].message \in SavingsMessages}

\* the answer holds one savings-rate insight, of this type and message,
\* right after its n budget alerts
OneSavingsInsight(insights, n, type, message) ==
    /\ SavingsAt(insights) = {n + 1}
    /\ insights[n + 1].type = type
    /\ insights[n + 1].message = message

MonthCategories == {MonthRows("expense")[k].category : k \in DOMAIN MonthRows("expense")}

\* where in the ledger a category has its first current-month expense
FirstSeen(category) ==
    CHOOSE k \in DOMAIN Doc.transactions :
       /\ Doc.transactions[k].type = "expense"
       /\ Doc.transactions[k].category = category
       /\ InCurrentMonth(Doc.transactions[k])
       /\ \A j \in 1..(k - 1) :
             ~(/\ Doc.transactions[j].type = "expense"
               /\ Doc.transactions[j].category = category
               /\ InCurrentMonth(Doc.transactions[j]))

\* c1 ranks ahead of c2: more spent, or as much and seen first in the ledger
RanksAhead(c1, c2) ==
    \/ MonthSpend(c1) > MonthSpend(c2)
    \/ MonthSpend(c1) = MonthSpend(c2) /\ FirstSeen(c1) < FirstSeen(c2)

\* what the claim says of an analysis
AnalysisAsClaimed(a) ==
    /\ Len(a.topCategories) =
          IF Cardinality(MonthCategories) < 5 THEN Cardinality(MonthCategories) ELSE 5
    /\ \A k \in DOMAIN a.topCategories :
          /\ a.topCategories[k].category \in MonthCategories
          /\ a.topCategories[k].amount = MonthSpend(a.topCategories[k].category)
    /\ \A k, l \in DOMAIN a.topCategories :
          k < l => RanksAhead(a.topCategories[k].category, a.topCategories[l].category)
    /\ \A c \in MonthCategories :
          (\A k \in DOMAIN a.topCategories : a.topCategories[k].category # c)
          => \A k \in DOMAIN a.topCategories : RanksAhead(a.topCategories[k].category, c)
    /\ a.totalIncome = MonthTotal("income")
    /\ a.totalExpenses = MonthTotal("expense")
    /\ a.totalExpenses = SumSeq([k \in DOMAIN a.byCategory |-> a.byCategory[k].amount])
    /\ a.netSavings = a.totalIncome - a.totalExpenses

\* no current-month expense has a category written as an integer index
CategoriesAreWords == \A c \in MonthCategories : ~IsArrayIndex(c)

\* C15: analyzeSpending takes the current-month transactions and returns as
\* topCategories at most 5 expense categories by descending amount,
\* categories of equal amount in the order in which they first appear in
\* the ledger (A=300, B=300, C=100 gives A, B, C); totalExpenses is the sum
\* of the byCategory values and netSavings = totalIncome - totalExpenses.
C15_TopCategoriesInLedgerOrder ==
    [][ ret'.op = "getSpending" => AnalysisAsClaimed(ret'.analysis) /\ file' = file ]_vars

\* C15, for the ledgers it holds of: those whose current-month expense
\* categories are not written as integer indices
C15_TopCategoriesOfWords ==
    [][ (ret'.op = "getSpending" /\ CategoriesAreWords)
        => AnalysisAsClaimed(ret'.analysis) /\ file' = file ]_vars

\* Food = 300 entered before 529 = 300, and 529 reported ahead of Food
C15_Witness ==
    /\ ret.op = "getSpending"
    /\ Len(Doc.transactions) = 2
    /\ Doc.transactions[1].category = <<"F", "o", "o", "d">>
    /\ Doc.transactions[1].amount = 300
    /\ Doc.transactions[2].category = <<"5", "2", "9">>
    /\ ret.analysis.topCategories =
          << [category |-> <<"5", "2", "9">>, amount |-> 300],
             [category |-> <<"F", "o", "o", "d">>, amount |-> 300] >>

\* Toys = 300, Pets = 300, Gym = 100 in that ledger order are reported in
\* that order, and six categories are cut to five
C15_WitnessOfWords ==
    /\ ret.op = "getSpending"
    /\ \/ /\ Len(ret.analysis.topCategories) = 3
          /\ ret.analysis.topCategories[1] = [category |-> <<"T", "o", "y", "s">>, amount |-> 300]
          /\ ret.analysis.topCategories[2] = [category |-> <<"P", "e", "t", "s">>, amount |-> 300]
          /\ ret.analysis.topCategories[3] = [category |-> <<"G", "y", "m">>, amount |-> 100]
       \/ /\ Cardinality(MonthCategories) = 6
          /\ Len(ret.analysis.topCategories) = 5

\* ----------------------------------------------------------------- storage
\* the collections of a finance document
Collections ==
    {"transactions", "budgets", "accounts", "categories", "recurringTransactions",
     "savingsGoals"}

\* the empty default document, stamped now
EmptyDefault ==
    [ transactions          |-> <<>>,
      budgets               |-> <<>>,
      accounts              |-> << [id |-> "default", name |-> "Main Account",
                                    type |-> "checking", balance |-> 0,
                                    currency |-> <<"U", "S", "D">>] >>,
      categories            |-> DEFAULT_CATEGORIES,
      lastUpdated           |-> now,
      recurringTransactions |-> <<>>,
      savingsGoals          |-> <<>>,
      defaultCurrency       |-> <<"U", "S", "D">>,
      exchangeRates         |-> <<>> ]

\* the call answered with the empty default document after persisting it
SubstitutedDefault ==
    /\ ~ret'.threw
    /\ ret'.data = <<EmptyDefault>>
    /\ file' = Stored(EmptyDefault)
    /\ ret'.saves = 1

\* C16: load() never throws and always returns a document with all its
\* collections; when the stored document is missing, unreadable or corrupt
\* it returns the empty default document (one "Main Account", the default
\* categories, defaultCurrency USD) after persisting it, and no error
\* reaches the caller.
C16_LoadNeverThrows ==
    [][ ret'.op = "loadData"
        => /\ ~ret'.threw
           /\ Collections \subseteq DOMAIN ret'.data[1]
           /\ file.status # "ok" => SubstitutedDefault
      ]_vars

\* C16, as far as it goes: a file that is missing or does not parse is
\* replaced by the empty default document, which is returned; a file that
\* parses is returned as it is and not written.
C16_LoadSubstitutesDefault ==
    [][ ret'.op = "loadData"
        => /\ file.status \in {"absent", "corrupt"} => SubstitutedDefault
           /\ file.status = "ok"
              => ~ret'.threw /\ ret'.data = <<Doc>> /\ file' = file /\ ret'.saves = 0
      ]_vars

\* a load of a file that cannot be read or written threw
C16_Witness ==
    /\ ret.op = "loadData"
    /\ ret.threw
    /\ file.status = "unreadable"

\* a load found no readable document, a day after the start, and left the
\* empty default document in the file
C16_WitnessSubstituted ==
    /\ ret.op = "loadData"
    /\ ~ret.threw
    /\ ret.saves = 1
    /\ now = StartHour + 24
    /\ file = Stored(EmptyDefault)

\* ------------------------------------------------------------ absent ids
\* the step just taken called an engine operation with an id
CalledById == "id" \in DOMAIN ret' /\ vars' # vars

\* the ids the document holds for goals, or for recurring entries
IdsHeld(kind) ==
    IF kind = "goal" THEN IdsOf(Doc.savingsGoals) ELSE IdsOf(Doc.recurringTransactions)

PlaceOf(ledger, id) == CHOOSE k \in DOMAIN ledger : ledger[k].id = id

\* every transaction of the ledger before is in the ledger after, with all
\* its fields, and any two of them in the same order
LedgerKept(before, after) ==
    /\ \A i \in DOMAIN before : \E k \in DOMAIN after : after[k] = before[i]
    /\ \A i, j \in DOMAIN before :
          i < j => PlaceOf(after, before[i].id) < PlaceOf(after, before[j].id)

\* the ledger after is the ledger before without its transaction with this id
OneRemoved(before, after, id) ==
    /\ Len(after) = Len(before) - 1
    /\ \A k \in DOMAIN after : after[k].id # id
    /\ LedgerKept(SelectSeq(before, LAMBDA t : t.id # id), after)

\* what the claim says of a step
LedgerStepAsClaimed ==
    /\ ret'.op # "deleteTransaction" => LedgerKept(Doc.transactions, Doc'.transactions)
    /\ ret'.op = "processRecurringTransactions"
       => /\ Len(Doc'.transactions) = Len(Doc.transactions) + ret'.processed
          /\ SubSeq(Doc'.transactions, 1, Len(Doc.transactions)) = Doc.transactions
    /\ ret'.op = "deleteTransaction"
       => IF ret'.id \in IdsOf(Doc.transactions)
          THEN OneRemoved(Doc.transactions, Doc'.transactions, ret'.id)
          ELSE Doc'.transactions = Doc.transactions

\* C18: a transaction in the ledger is never modified: recurring processing,
\* goal, budget and default-currency operations and rate updates leave every
\* transaction's fields and their order as they are; recurring processing
\* only appends; a transaction leaves the ledger only through
\* delete-transaction, which removes exactly the one with the given id.
C18_LedgerOnlyGrowsOrDeletes ==
    [][ LedgerStepAsClaimed ]_vars

\* C18, for every step but the late save of a rate update
C18_LedgerKeptBySynchronousWrites ==
    [][ ret'.op # "updateExchangeRatesResume" => LedgerStepAsClaimed ]_vars

\* a rate update saved, and of the three transactions the ledger held only
\* the first is left
C18_Witness ==
    /\ ret.op = "updateExchangeRatesResume"
    /\ ret.saves = 1
    /\ nextId = 6
    /\ Len(Doc.transactions) = 1
    /\ Doc.transactions[1].id = 3
    /\ Doc.exchangeRates # <<>>

\* recurring processing appended two transactions behind the one the ledger
\* held
C18_WitnessAppended ==
    /\ ret.op = "processRecurringTransactions"
    /\ ret.processed = 2
    /\ Len(Doc.transactions) = 3
    /\ Doc.transactions[1].id = 3
    /\ Doc.transactions[2].date = <<2024, 3, 15>>
    /\ Doc.transactions[3].date = <<2024, 4, 15>>

\* ------------------------------------------------------------- conversion
\* the code with its letters in upper case, for the codes converted
UpperCode(c) ==
    CASE c = <<"u", "s", "d">> -> <<"U", "S", "D">>
      [] c = <<"e", "u", "r">> -> <<"E", "U", "R">>
      [] OTHER                 -> c

\* C19: convertCurrency(x, C, C, rates) returns convertedAmount = x and
\* rate = 1 exactly, for every amount, every code C (upper and lower case
\* taken as the same code, supported or not) and every rate table, the ones
\* that lack C included.
C19_SameCurrencyIsIdentity ==
    (ret.op = "convertCurrency" /\ UpperCode(ret.from) = UpperCode(ret.to))
    => /\ ret.result.convertedAmount = ret.amount
       /\ ret.result.rate = 10000

\* 1.005 of a code the sparse table lacks, converted from its lower-case to
\* its upper-case spelling, came back as 1.005
C19_Witness ==
    /\ ret.op = "convertCurrency"
    /\ ret.from = <<"u", "s", "d">>
    /\ ret.to = <<"U", "S", "D">>
    /\ ret.rates = <<(<<"E", "U", "R">> :> 92) @@ (<<"J", "P", "Y">> :> 0)>>
    /\ ret.amount = 1005
    /\ ret.result = [convertedAmount |-> 1005, rate |-> 10000]

\* the rate the table gives a supported code, in hundredths, 1 where it
\* gives none
TableRate(rates, code) ==
    LET table == IF rates = <<>> THEN DEFAULT_EXCHANGE_RATES ELSE rates[1]
    IN  IF code \in DOMAIN table /\ table[code] > 0 THEN table[code] ELSE 100

\* |n|
Magnitude(n) == IF n < 0 THEN -n ELSE n

\* the state holds the answer of a conversion from A to B and back, of a
\* 2-decimal amount, A and B among the supported codes
RoundTripDone ==
    /\ ret.op = "convertCurrency"
    /\ ret.of # <<>>
    /\ ret.of[1] % 10 = 0
    /\ ret.from \in SupportedCodes
    /\ ret.to \in SupportedCodes

\* C20: converting a 2-decimal amount x from A to B and the result back
\* from B to A, with the same table, yields x to within 0.01, for every pair
\* of the 12 supported currencies.
C20_RoundTripWithinCent ==
    RoundTripDone => Magnitude(ret.result.convertedAmount - ret.of[1]) <= 10

\* C20 as the code has it: the round trip yields x to within
\* 0.005 * (1 + rate[A] / rate[B]), which is within 0.01 when
\* rate[A] <= rate[B]. Here ret.to is A and ret.from is B.
C20_RoundTripWithinRateBound ==
    RoundTripDone
    => /\ Magnitude(ret.result.convertedAmount - ret.of[1]) * TableRate(ret.rates, ret.from)
             <= 5 * (TableRate(ret.rates, ret.from) + TableRate(ret.rates, ret.to))
       /\ TableRate(ret.rates, ret.to) <= TableRate(ret.rates, ret.from)
          => Magnitude(ret.result.convertedAmount - ret.of[1]) <= 10

\* 3.33 JPY became 0.02 USD and came back as 2.99 JPY
C20_Witness ==
    /\ ret.op = "convertCurrency"
    /\ ret.of = <<3330>>
    /\ ret.rates = <<>>
    /\ ret.from = <<"U", "S", "D">>
    /\ ret.to = <<"J", "P", "Y">>
    /\ ret.amount = 20
    /\ ret.result.convertedAmount = 2990

\* ---------------------------------------------------------------- C21
\* the date n days after the date d
DaysAfter(d, n) == CivilFromDays(DaysFromCivil(d[1], d[2], d[3]) + n)

\* the calendar month after the month of d, as <<y, m>>
MonthAfter(d) == IF d[2] = 12 THEN <<d[1] + 1, 1>> ELSE <<d[1], d[2] + 1>>

\* the date y-m-d exists in the calendar
DayExists(y, m, d) == CivilFromDays(DaysFromCivil(y, m, d)) = <<y, m, d>>

\* a call of calculateNextDueDate has returned
NextDueReturned == ret.op = "calculateNextDueDate"

\* the result as the claim describes it, for each frequency
NextDueAsClaimed(d, frequency, result) ==
    /\ frequency = "daily" => result = DaysAfter(d, 1)
    /\ frequency = "weekly" => result = DaysAfter(d, 7)
    /\ frequency = "monthly" =>
          /\ <<result[1], result[2]>> = MonthAfter(d)
          /\ DayExists(MonthAfter(d)[1], MonthAfter(d)[2], d[3]) => result[3] = d[3]
    /\ frequency = "yearly" => result = <<d[1] + 1, d[2], d[3]>>
    /\ DateLT(d, result)

\* the result as Date arithmetic gives it where local time is UTC: the day
\* number of the same day in the target month or year, which runs over into
\* the month after when the target month is shorter
NextDueRollingOver(d, frequency, result) ==
    /\ frequency = "daily" => result = DaysAfter(d, 1)
    /\ frequency = "weekly" => result = DaysAfter(d, 7)
    /\ frequency = "monthly" =>
          result = CivilFromDays(DaysFromCivil(MonthAfter(d)[1], MonthAfter(d)[2], d[3]))
    /\ frequency = "yearly" =>
          result = CivilFromDays(DaysFromCivil(d[1] + 1, d[2], d[3]))
    /\ DateLT(d, result)

\* C21: calculateNextDueDate gives the day after for daily, the date 7 days
\* later for weekly, for monthly a date in the following calendar month with
\* the same day of the month when that day exists there, for yearly the same
\* month and day a year later; the result is always strictly later.
C21_NextDueCalendarAware ==
    NextDueReturned => NextDueAsClaimed(ret.currentDate, ret.frequency, ret.result)

\* C21, as far as it holds: with local time UTC the result is the same day
\* of the target month or year, rolled over into the following month when the
\* target month is shorter (also when the day is 29 February); in a zone
\* without summer time daily and weekly add 1 and 7 days and the result is
\* strictly later.
C21_NextDueRollsOver ==
    NextDueReturned =>
        /\ tz = "UTC" => NextDueRollingOver(ret.currentDate, ret.frequency, ret.result)
        /\ ~ObservesDST(tz) =>
              /\ ret.frequency = "daily" => ret.result = DaysAfter(ret.currentDate, 1)
              /\ ret.frequency = "weekly" => ret.result = DaysAfter(ret.currentDate, 7)
              /\ DateLT(ret.currentDate, ret.result)

\* a month after 31 January 2024 is asked for and 2 March comes back
C21_Witness ==
    /\ NextDueReturned
    /\ tz = "UTC"
    /\ ret.currentDate = <<2024, 1, 31>>
    /\ ret.frequency = "monthly"
    /\ ret.result = <<2024, 3, 2>>

\* in Europe/Berlin the day after 31 March 2024 is asked for and 31 March
\* comes back
C21_WitnessSameDay ==
    /\ NextDueReturned
    /\ tz = "Europe/Berlin"
    /\ ret.currentDate = <<2024, 3, 31>>
    /\ ret.frequency = "daily"
    /\ ret.result = <<2024, 3, 31>>

\* ---------------------------------------------------------------- C22
\* the order of the table
CategoryOrder ==
    <<"Food & Dining", "Groceries", "Transportation", "Shopping", "Entertainment",
      "Bills & Utilities", "Subscriptions", "Healthcare", "Education", "Personal Care",
      "Travel", "Income">>

\* the keywords of the category
KeywordsOf(category) ==
    LET e == CHOOSE i \in DOMAIN CATEGORY_KEYWORDS : CATEGORY_KEYWORDS[i][1] = category
    IN  {CATEGORY_KEYWORDS[e][2][k] : k \in DOMAIN CATEGORY_KEYWORDS[e][2]}

\* the text at position i reads word, upper or lower case
ReadsAt(text, i, word) ==
    /\ i + Len(word) - 1 <= Len(text)
    /\ \A j \in 1..Len(word) :
          SubSeq(text, i + j - 1, i + j - 1)
              \in {SubSeq(word, j, j), UpperChar(SubSeq(word, j, j))}

\* some keyword of the category occurs in the description, lower-cased
Matches(category, description) ==
    \E word \in KeywordsOf(category) : \E i \in 1..Len(description) :
        ReadsAt(description, i, word)

\* C22: suggestCategory returns the first category of the table, in its
\* fixed order, that has a keyword occurring in the lower-cased description,
\* "Other" when no category has one, and the same for the same description.
C22_FirstCategoryInTableOrder ==
    ret.op = "suggestCategory" =>
        /\ \/ /\ ret.result = "Other"
              /\ \A i \in DOMAIN CategoryOrder : ~Matches(CategoryOrder[i], ret.description)
           \/ \E i \in DOMAIN CategoryOrder :
                 /\ ret.result = CategoryOrder[i]
                 /\ Matches(CategoryOrder[i], ret.description)
                 /\ \A j \in 1..(i - 1) : ~Matches(CategoryOrder[j], ret.description)
        /\ ret.before # None => ret.result = ret.before[1]

\* "Hotel booking WALMART" has keywords of Groceries, Education and Travel and
\* comes back as Groceries, twice
C22_Witness ==
    /\ ret.op = "suggestCategory"
    /\ ret.description = "Hotel booking WALMART"
    /\ ret.result = "Groceries"
    /\ ret.before = <<"Groceries">>

\* "taxi" has no keyword
C22_WitnessOther ==
    /\ ret.op = "suggestCategory"
    /\ ret.description = "taxi"
    /\ ret.result = "Other"

\* ---------------------------------------------------------------- C23
\* the progress of a goal that has no deadline
ProgressWithoutDeadline(p) ==
    /\ p.onTrack
    /\ p.projectedCompletion = None
    /\ p.monthlyNeeded = None

\* C23: getGoalsWithProgress gives every goal without a deadline onTrack =
\* true, no projectedCompletion and no monthlyNeeded, whatever its amounts and
\* its creation time; a goal with a deadline whose average monthly contribution
\* currentAmount / max(months since creation, 1) is zero or negative (that is,
\* whose currentAmount is) gets onTrack = false and no projectedCompletion.
C23_ProgressWithoutDeadlineOrAverage ==
    ret.op = "getGoalsWithProgress" =>
        /\ DOMAIN ret.goals = DOMAIN Doc.savingsGoals
        /\ \A k \in DOMAIN ret.goals :
              /\ ret.goals[k].goal = Doc.savingsGoals[k]
              /\ Doc.savingsGoals[k].deadline = None => ProgressWithoutDeadline(ret.goals[k])
              /\ (Doc.savingsGoals[k].deadline # None /\ Doc.savingsGoals[k].currentAmount <= 0)
                    => /\ ~ret.goals[k].onTrack
                       /\ ret.goals[k].projectedCompletion = None

\* the goal without a deadline is overpaid, the goal with one is overdrawn
C23_Witness ==
    /\ ret.op = "getGoalsWithProgress"
    /\ Len(ret.goals) = 2
    /\ ret.goals[1].goal.deadline = None
    /\ ret.goals[1].goal.currentAmount = 3
    /\ ret.goals[1].onTrack
    /\ ret.goals[2].goal.deadline # None
    /\ ret.goals[2].goal.currentAmount = -2
    /\ ~ret.goals[2].onTrack

\* a goal with a deadline and a positive average is projected, on track
C23_WitnessProjected ==
    /\ ret.op = "getGoalsWithProgress"
    /\ Len(ret.goals) = 2
    /\ ret.goals[2].goal.currentAmount = 3
    /\ ret.goals[2].onTrack
    /\ ret.goals[2].projectedCompletion = << <<2024, 7, 15>> >>

\* ---------------------------------------------------------------- C24
\* A CSV reader with the standard quoting rules. A field that starts with a
\* double quote runs to the next double quote that is not doubled, and a
\* doubled one stands for one; so a character is outside every quoted field
\* exactly when an even number of double quotes stands before it.
Unquoted(text, i) == Cardinality({j \in 1..(i - 1) : SubSeq(text, j, j) = "\""}) % 2 = 0

\* the positions at which the text is cut: the separators outside quotes
CutsAt(text, sep) == {i \in 1..Len(text) : SubSeq(text, i, i) = sep /\ Unquoted(text, i)}

\* the k-th of the cuts, counting the start of the text as cut 0 and its end
\* as the last
Cut(text, cuts, k) ==
    IF k = 0 THEN 0
    ELSE IF k > Cardinality(cuts) THEN Len(text) + 1
    ELSE CHOOSE i \in cuts : Cardinality({j \in cuts : j < i}) = k - 1

\* the pieces of the text between its cuts
Pieces(text, cuts) ==
    [k \in 1..(Cardinality(cuts) + 1) |->
        SubSeq(text, Cut(text, cuts, k - 1) + 1, Cut(text, cuts, k) - 1)]

\* a quoted field without its quotes, doubled quotes read as one
RECURSIVE Undoubled(_)
Undoubled(str) ==
    IF Len(str) = 0 THEN ""
    ELSE IF Len(str) >= 2 /\ SubSeq(str, 1, 2) = "\"\"" THEN "\"" \o Undoubled(SubSeq(str, 3, Len(str)))
    ELSE SubSeq(str, 1, 1) \o Undoubled(SubSeq(str, 2, Len(str)))

FieldRead(piece) ==
    IF Len(piece) >= 2 /\ SubSeq(piece, 1, 1) = "\""
    THEN Undoubled(SubSeq(piece, 2, Len(piece) - 1))
    ELSE piece

\* a record ends at a line feed, with or without a carriage return before it
LineRead(line) ==
    IF Len(line) > 0 /\ SubSeq(line, Len(line), Len(line)) = "\r"
    THEN SubSeq(line, 1, Len(line) - 1)
    ELSE line

RecordRead(line) ==
    [k \in DOMAIN Pieces(line, CutsAt(line, ",")) |->
        FieldRead(Pieces(line, CutsAt(line, ","))[k])]

\* the records of the text, each the sequence of its fields
ParseCSV(text) ==
    [k \in DOMAIN Pieces(text, CutsAt(text, "\n")) |->
        RecordRead(LineRead(Pieces(text, CutsAt(text, "\n"))[k]))]

\* the number a string of digits with an optional minus sign stands for
RECURSIVE NumberOf(_)
NumberOf(str) ==
    IF Len(str) = 0 THEN 0
    ELSE IF SubSeq(str, 1, 1) = "-" THEN -NumberOf(SubSeq(str, 2, Len(str)))
    ELSE 10 * NumberOf(SubSeq(str, 1, Len(str) - 1))
            + (CHOOSE v \in 0..9 : DigitChars[v + 1] = SubSeq(str, Len(str), Len(str)))

\* the tuple of a transaction that the export is to carry
TupleOf(t) ==
    <<DateString(t.date), t.type, Text(t.category), t.description,
      IF t.type = "expense" THEN -t.amount ELSE t.amount>>

\* the tuple a parsed record carries
TupleRead(record) == <<record[1], record[2], record[3], record[4], NumberOf(record[5])>>

\* how often x occurs in the sequence s
TimesIn(s, x) == Cardinality({k \in DOMAIN s : s[k] = x})

\* the parsed records are, behind the header, the tuples of the ledger, each
\* as often as it is in the ledger, with the dates ascending
RoundTrip(records, ledger) ==
    /\ Len(records) = Len(ledger) + 1
    /\ \A k \in DOMAIN ledger :
          /\ Len(records[k + 1]) = 8
          /\ TimesIn([j \in DOMAIN ledger |-> TupleRead(records[j + 1])], TupleOf(ledger[k]))
                = TimesIn([j \in DOMAIN ledger |-> TupleOf(ledger[j])], TupleOf(ledger[k]))
    /\ \A k \in 2..Len(ledger) : records[k][1] = records[k + 1][1]
                                    \/ \E j \in DOMAIN ledger, l \in DOMAIN ledger :
                                          /\ DateString(ledger[j].date) = records[k][1]
                                          /\ DateString(ledger[l].date) = records[k + 1][1]
                                          /\ DateLT(ledger[j].date, ledger[l].date)

\* C24: parsing the text of exportTransactionsToCSV without filters by the
\* standard CSV quoting rules gives back, for every transaction of the ledger
\* and in ascending order of date, its date, type, category, description and
\* signed amount (negative for an expense), also where the description or the
\* category holds commas, double quotes or newlines.
C24_ExportRoundTrip ==
    (ret.op = "exportTransactionsToCSV" /\ ret.options = NoFilters)
        => RoundTrip(ParseCSV(ret.csv), Doc.transactions)

\* two rows out of date order, one with a comma, a quote and a newline in its
\* description and quotes in its category, are exported
C24_Witness ==
    /\ ret.op = "exportTransactionsToCSV"
    /\ ret.options = NoFilters
    /\ Len(Doc.transactions) = 2
    /\ Doc.transactions[1].description = " a ,\"\n\""
    /\ Doc.transactions[2].description = "Rent, May"
    /\ DateLT(Doc.transactions[2].date, Doc.transactions[1].date)
    /\ ParseCSV(ret.csv)[2][4] = "Rent, May"
    /\ ParseCSV(ret.csv)[3][4] = " a ,\"\n\""

\* ---------------------------------------------------------------- C25
\* the step appended one entry to the ledger of the i-th goal
GoalGrown(i) ==
    /\ i \in DOMAIN Doc.savingsGoals
    /\ i \in DOMAIN Doc'.savingsGoals
    /\ Len(Doc'.savingsGoals[i].contributions) = Len(Doc.savingsGoals[i].contributions) + 1

\* the amount of the last entry of the goal's ledger
LastAmount(goal) == goal.contributions[Len(goal.contributions)].amount

\* C25: whatever amounts addContribution and withdrawFromGoal are called
\* with, zero and negative ones included, no goal's currentAmount is ever
\* negative, every entry addContribution appends has a positive amount and
\* every entry withdrawFromGoal appends a negative one.
C25_BalanceAndSignsKept ==
    [][ /\ \A i \in DOMAIN Doc'.savingsGoals : Doc'.savingsGoals[i].currentAmount >= 0
        /\ Called("addContribution") =>
              \A i \in DOMAIN Doc'.savingsGoals :
                  GoalGrown(i) => LastAmount(Doc'.savingsGoals[i]) > 0
        /\ Called("withdrawFromGoal") =>
              \A i \in DOMAIN Doc'.savingsGoals :
                  GoalGrown(i) => LastAmount(Doc'.savingsGoals[i]) < 0 ]_vars

\* C25, as far as it holds: a withdrawal that succeeds leaves a currentAmount
\* of at least 0 and appends the negated amount, which is negative when the
\* amount is positive; a contribution appends the amount as it is given and
\* adds it to currentAmount.
C25_WithdrawalKeepsBalance ==
    [][ /\ (Called("withdrawFromGoal") /\ ret'.success) =>
              \E i \in DOMAIN Doc'.savingsGoals :
                  /\ GoalGrown(i)
                  /\ Doc'.savingsGoals[i].id = ret'.goalId
                  /\ LastAmount(Doc'.savingsGoals[i]) = -ret'.amount
                  /\ Doc'.savingsGoals[i].currentAmount
                        = Doc.savingsGoals[i].currentAmount - ret'.amount
                  /\ Doc'.savingsGoals[i].currentAmount >= 0
        /\ (Called("addContribution") /\ ret'.success) =>
              \E i \in DOMAIN Doc'.savingsGoals :
                  /\ GoalGrown(i)
                  /\ Doc'.savingsGoals[i].currentAmount
                        = Doc.savingsGoals[i].currentAmount
                             + LastAmount(Doc'.savingsGoals[i]) ]_vars

\* a contribution of -2 to a new goal has succeeded: the ledger holds the
\* entry -2 and currentAmount is -2
C25_Witness ==
    /\ ret.op = "addContribution"
    /\ ret.success
    /\ \E i \in DOMAIN Doc.savingsGoals :
          /\ LedgerAmounts(Doc.savingsGoals[i]) = <<-2>>
          /\ Doc.savingsGoals[i].currentAmount = -2

\* a withdrawal of -2 from a new goal has succeeded and appended the entry 2
C25_WitnessWithdrawn ==
    /\ ret.op = "withdrawFromGoal"
    /\ ret.success
    /\ ret.amount = -2
    /\ \E i \in DOMAIN Doc.savingsGoals :
          /\ Doc.savingsGoals[i].id = ret.goalId
          /\ LedgerAmounts(Doc.savingsGoals[i]) = <<2>>
          /\ Doc.savingsGoals[i].currentAmount = 2

\* ---------------------------------------------------------------- C26
\* the step stored fetched rates
RatesSaved == Called("updateExchangeRatesResume") /\ ret'.saves = 1

\* the stored document after the step is the one before it but for
\* exchangeRates and lastUpdated
OnlyRatesChanged ==
    Doc' = [Doc EXCEPT !.exchangeRates = Doc'.exchangeRates,
                       !.lastUpdated = Doc'.lastUpdated]

\* C26: a call of updateExchangeRatesIfStale that fetches and stores new
\* rates changes only exchangeRates and lastUpdated of the persisted document:
\* what another request persisted while the fetch was awaited is still there
\* after the rates are saved.
C26_RefreshKeepsOtherWrites == [][ RatesSaved => OnlyRatesChanged ]_vars

\* C26, as far as it holds: when no other request has written the document
\* between the call's load and its save, the save changes only exchangeRates
\* and lastUpdated.
C26_RefreshAloneChangesOnlyRates ==
    [][ (RatesSaved /\ \E i \in DOMAIN pending : Resumed(i) /\ pending[i] = Doc)
            => OnlyRatesChanged ]_vars

\* rates were saved by a call that was suspended while recurring processing
\* ran: the two ids processing used are spent, and the stored recurring entry
\* is unprocessed again, due on its start date
C26_Witness ==
    /\ ret.op = "updateExchangeRatesResume"
    /\ ret.saves = 1
    /\ nextId = 6
    /\ Len(Doc.recurringTransactions) = 1
    /\ Doc.recurringTransactions[1].lastProcessed = None
    /\ Doc.recurringTransactions[1].nextDue = <<2024, 3, 15>>
    /\ Doc.exchangeRates # None

\* ---------------------------------------------------------------- C27
\* the shortest period of a frequency, in days
PeriodDays(frequency) ==
    CASE frequency = "daily"   -> 1
      [] frequency = "weekly"  -> 7
      [] frequency = "monthly" -> 28
      [] frequency = "yearly"  -> 365

DayNumber(date) == DaysFromCivil(date[1], date[2], date[3])

\* the periods of an active entry that have come due by today
PeriodsDue(recurring) ==
    IF recurring.active /\ DateLE(recurring.nextDue, today)
    THEN (DayNumber(today) - DayNumber(recurring.nextDue)) \div PeriodDays(recurring.frequency) + 1
    ELSE 0

PeriodsDueIn(list) == SumSeq([i \in DOMAIN list |-> PeriodsDue(list[i])])

\* C27: every call of processRecurringTransactions returns, having
\* materialized no more transactions than there are periods between the
\* entries' nextDue and today.
C27_ProcessingTerminates ==
    [][ Called("processRecurringTransactions")
        => /\ ret'.returns
           /\ ret'.processed <= PeriodsDueIn(Doc.recurringTransactions) ]_vars

\* C27, in the zones without summer time: there every call returns within
\* that bound.
C27_TerminatesWithoutSummerTime ==
    [][ (Called("processRecurringTransactions") /\ ~ObservesDST(tz))
        => /\ ret'.returns
           /\ ret'.processed <= PeriodsDueIn(Doc.recurringTransactions) ]_vars

\* a daily entry due on the day summer time starts: the call does not return
C27_Witness ==
    /\ ret.op = "processRecurringTransactions"
    /\ ~ret.returns
    /\ tz = "Europe/Berlin"
    /\ today = <<2024, 3, 31>>
    /\ Len(Doc.recurringTransactions) = 1
    /\ Doc.recurringTransactions[1].frequency = "daily"
    /\ Doc.recurringTransactions[1].nextDue = <<2024, 3, 30>>
    /\ Doc.transactions = <<>>

\* a daily entry three days overdue in a zone without summer time
C27_WitnessCaughtUp ==
    /\ ret.op = "processRecurringTransactions"
    /\ ret.returns
    /\ ret.processed = 4
    /\ tz = "America/Bogota"
    /\ Doc.recurringTransactions[1].frequency = "daily"

\* ---------------------------------------------------------------- C28
\* the scheduled dates of an entry that have been materialized so far
Materialized(recurring) ==
    IF recurring.lastProcessed = None
    THEN <<>>
    ELSE DueDates(recurring.startDate, recurring.frequency, recurring.lastProcessed)

\* the transactions of the ledger dated d that came from a schedule of the frequency
MaterializedOn(d, frequency) ==
    Cardinality({k \in DOMAIN Doc.transactions :
                    /\ Doc.transactions[k].date = d
                    /\ Doc.transactions[k].recurringFrequency = frequency})

\* the entries of the frequency that have d among their materialized dates
ScheduledOn(d, frequency) ==
    Cardinality({i \in DOMAIN Doc.recurringTransactions :
                    /\ Doc.recurringTransactions[i].frequency = frequency
                    /\ \E k \in DOMAIN Materialized(Doc.recurringTransactions[i]) :
                          Materialized(Doc.recurringTransactions[i])[k] = d})

\* every entry has one transaction for each of its materialized dates, these
\* dates are all different, and the ledger holds nothing else
OnePerScheduledDate ==
    /\ \A k \in DOMAIN Doc.transactions :
          MaterializedOn(Doc.transactions[k].date, Doc.transactions[k].recurringFrequency)
             = ScheduledOn(Doc.transactions[k].date, Doc.transactions[k].recurringFrequency)
    /\ \A i \in DOMAIN Doc.recurringTransactions :
          \A k \in DOMAIN Materialized(Doc.recurringTransactions[i]) :
             /\ MaterializedOn(Materialized(Doc.recurringTransactions[i])[k],
                               Doc.recurringTransactions[i].frequency)
                   = ScheduledOn(Materialized(Doc.recurringTransactions[i])[k],
                                 Doc.recurringTransactions[i].frequency)
             /\ k > 1 => DateLT(Materialized(Doc.recurringTransactions[i])[k - 1],
                                Materialized(Doc.recurringTransactions[i])[k])

\* a pass run on f, and right after it a second one
SecondPassIdle(f) ==
    \A first \in {processRecurringTransactions(f)} :
       \A second \in {processRecurringTransactions(first.file)} :
          /\ second.returns
          /\ second.processed = 0
          /\ second.transactions = <<>>
          /\ second.file = first.file
          /\ second.saves = 0

\* C28: whatever the document, a processing pass run right after another
\* on the same day returns processed = 0, appends nothing and leaves the file
\* as the first pass left it; and over any sequence of passes every entry has
\* exactly one transaction for each scheduled date it has materialized.
C28_IdempotentWithinDay ==
    /\ SecondPassIdle(file)
    /\ OnePerScheduledDate

\* a pass that found nothing to do on an entry already processed today,
\* the ledger holding the occurrences of the earlier passes
C28_Witness ==
    /\ ret.op = "processRecurringTransactions"
    /\ ret.processed = 0
    /\ ret.saves = 0
    /\ Len(Doc.transactions) >= 3
    /\ \E i \in DOMAIN Doc.recurringTransactions :
          /\ Doc.recurringTransactions[i].active
          /\ Doc.recurringTransactions[i].lastProcessed = today

\* ---------------------------------------------------------------- C29
\* the cursor of an entry: where it started as long as nothing was
\* materialized, else the date after the last one materialized
CursorKept(recurring) ==
    IF recurring.lastProcessed = None
    THEN recurring.nextDue = recurring.startDate
    ELSE /\ DateLT(recurring.lastProcessed, recurring.nextDue)
         /\ recurring.nextDue = calculateNextDueDate(recurring.lastProcessed,
                                                     recurring.frequency)

\* across a step, an entry keeps its cursor unless the step is a processing
\* pass, which may move it forward
CursorMoved(before, after) ==
    /\ DateLE(before.nextDue, after.nextDue)
    /\ after.startDate = before.startDate
    /\ ret'.op # "processRecurringTransactions"
          => /\ after.nextDue = before.nextDue
             /\ after.lastProcessed = before.lastProcessed

\* C29: after every create, process, toggle and delete, each entry that
\* has materialized nothing has no lastProcessed and nextDue = startDate, each
\* other entry has lastProcessed < nextDue = calculateNextDueDate(lastProcessed,
\* frequency); nextDue never moves backwards, and only a processing pass
\* changes it.
C29_SchedulingCursor ==
    [][ /\ \A j \in DOMAIN Doc'.recurringTransactions :
              CursorKept(Doc'.recurringTransactions[j])
        /\ \A i \in DOMAIN Doc.recurringTransactions :
              \A j \in DOMAIN Doc'.recurringTransactions :
                 Doc'.recurringTransactions[j].id = Doc.recurringTransactions[i].id
                    => CursorMoved(Doc.recurringTransactions[i],
                                   Doc'.recurringTransactions[j]) ]_vars

\* an entry caught up on 15 April is paused the day after: its cursor stays
C29_Witness ==
    /\ ret.op = "toggleRecurringTransaction"
    /\ ret.success
    /\ today = <<2024, 4, 16>>
    /\ \E i \in DOMAIN Doc.recurringTransactions :
          /\ ~Doc.recurringTransactions[i].active
          /\ Doc.recurringTransactions[i].frequency = "monthly"
          /\ Doc.recurringTransactions[i].startDate = <<2024, 1, 15>>
          /\ Doc.recurringTransactions[i].lastProcessed = <<2024, 4, 15>>
          /\ Doc.recurringTransactions[i].nextDue = <<2024, 5, 15>>

\* ---------------------------------------------------------------- C30
\* the entry of a list with the given id (there is one)
EntryOf(list, id) == list[CHOOSE i \in DOMAIN list : list[i].id = id]

\* the last scheduled date of an entry up to day (there is one)
LastDue(recurring, day) ==
    DueDates(recurring.nextDue, recurring.frequency, day)[
        Len(DueDates(recurring.nextDue, recurring.frequency, day))]

\* the step is the first processing pass after an entry was resumed
PassAfterResume ==
    /\ ret.op = "toggleRecurringTransaction"
    /\ ret.active
    /\ ret.success
    /\ Called("processRecurringTransactions")

\* C30: a paused entry keeps its nextDue through the passes that run and
\* the days that go by while it is paused and through the resume, and the
\* first pass after the resume materializes one transaction for every
\* scheduled date from that nextDue through today, leaving the resumed entry
\* due after today.
C30_ResumeBackfills ==
    [][ /\ \A i \in DOMAIN Doc.recurringTransactions :
              (~Doc.recurringTransactions[i].active /\ ~Called("postRecurring"))
                 => /\ i \in DOMAIN Doc'.recurringTransactions
                    /\ Doc'.recurringTransactions[i].nextDue
                          = Doc.recurringTransactions[i].nextDue
                    /\ Doc'.recurringTransactions[i].lastProcessed
                          = Doc.recurringTransactions[i].lastProcessed
        /\ PassAfterResume
              => /\ EntryOf(Doc.recurringTransactions, ret.id).active
                 /\ [k \in DOMAIN Made |-> Made[k].date]
                       = ExpectedDates(Doc.recurringTransactions, today)
                 /\ ret'.processed = Len(Made)
                 /\ EntryOf(Doc'.recurringTransactions, ret.id).lastProcessed
                       = (IF DateLE(EntryOf(Doc.recurringTransactions, ret.id).nextDue, today)
                          THEN LastDue(EntryOf(Doc.recurringTransactions, ret.id), today)
                          ELSE EntryOf(Doc.recurringTransactions, ret.id).lastProcessed)
                 /\ DateLT(today, EntryOf(Doc'.recurringTransactions, ret.id).nextDue) ]_vars

\* a daily entry materialized on 15 April and resumed on the 17th, the
\* 16th and the 17th having passed: the state before the pass
C30_WitnessResumed ==
    /\ ret.op = "toggleRecurringTransaction"
    /\ ret.active
    /\ today = <<2024, 4, 17>>
    /\ Len(Doc.transactions) = 1
    /\ EntryOf(Doc.recurringTransactions, ret.id).frequency = "daily"
    /\ EntryOf(Doc.recurringTransactions, ret.id).lastProcessed = <<2024, 4, 15>>
    /\ EntryOf(Doc.recurringTransactions, ret.id).nextDue = <<2024, 4, 16>>

\* the pass after it: the 16th and the 17th are in the ledger
C30_Witness ==
    /\ ret.op = "processRecurringTransactions"
    /\ ret.processed = 2
    /\ today = <<2024, 4, 17>>
    /\ [k \in DOMAIN Doc.transactions |-> Doc.transactions[k].date]
          = << <<2024, 4, 15>>, <<2024, 4, 16>>, <<2024, 4, 17>> >>
    /\ Doc.recurringTransactions[1].active
    /\ Doc.recurringTransactions[1].nextDue = <<2024, 4, 18>>

====
